---- MODULE Spec2Model ----
(***************************************************************************)
(* Model of the request-time meta-tag pipeline of the website repository:  *)
(* the three Netlify edge functions (blog-meta, category-meta,             *)
(* social-meta) and the get-blog function they call.                       *)
(*                                                                         *)
(* Text is a sequence of chunks.  A chunk is either one of the characters  *)
(* the code treats specially (& < > " ' and the blank) or a run of         *)
(* ordinary characters.  An HTML document is a sequence of tags, one per   *)
(* line as in the templates and in the blocks the code inserts, so that    *)
(* a `.` of a regular expression never runs from one tag into the next.    *)
(***************************************************************************)
EXTENDS Integers, Sequences, FiniteSets, TLC

(***************************************************************************)
(* Bounds of the model.                                                    *)
(***************************************************************************)
\* how often one document is sent through a rewriter (the first request,
\* then requests whose origin page is the previous output)
MaxPasses == 2
\* how many times </head> occurs in an origin page, at most
MaxHeadClose == 2

(***************************************************************************)
(* Text: JavaScript strings are TLA+ strings; Len, SubSeq and \o work on   *)
(* them character by character.                                            *)
(***************************************************************************)
Char(s, i) == SubSeq(s, i, i)

Letters ==
    {"a", "b", "c", "d", "e", "f", "g", "h", "i", "j", "k", "l", "m",
     "n", "o", "p", "q", "r", "s", "t", "u", "v", "w", "x", "y", "z",
     "A", "B", "C", "D", "E", "F", "G", "H", "I", "J", "K", "L", "M",
     "N", "O", "P", "Q", "R", "S", "T", "U", "V", "W", "X", "Y", "Z"}

Digits == {"0", "1", "2", "3", "4", "5", "6", "7", "8", "9"}

\* the character class [a-zA-Z0-9_-]
SlugChars == Letters \cup Digits \cup {"_", "-"}

\* the characters \s matches that occur in the model's texts
Blank == {" ", "\n", "\t"}

RECURSIVE ReplaceFrom(_, _, _, _)
\* the text from position i on with every ch replaced, match after match
ReplaceFrom(s, ch, by, i) ==
    LET hits == {j \in i..Len(s) : Char(s, j) = ch}
    IN  IF hits = {} THEN (IF i > Len(s) THEN "" ELSE SubSeq(s, i, Len(s)))
        ELSE LET j == CHOOSE h \in hits : \A k \in hits : h <= k
             IN  (IF j > i THEN SubSeq(s, i, j - 1) ELSE "") \o by
                 \o ReplaceFrom(s, ch, by, j + 1)

\* str.replace(/ch/g, by) for a single character ch
ReplaceAll(s, ch, by) == ReplaceFrom(s, ch, by, 1)

\* escapeHtmlAttr: & first, then < > " '
escapeHtmlAttr(str) ==
    ReplaceAll(ReplaceAll(ReplaceAll(ReplaceAll(ReplaceAll(str,
        "&", "&amp;"), "<", "&lt;"), ">", "&gt;"), "\"", "&quot;"), "'", "&#39;")

RECURSIVE TrimLeft(_)
TrimLeft(s) ==
    IF Len(s) > 0 /\ Char(s, 1) \in Blank THEN TrimLeft(SubSeq(s, 2, Len(s))) ELSE s

RECURSIVE TrimRight(_)
TrimRight(s) ==
    IF Len(s) > 0 /\ Char(s, Len(s)) \in Blank
    THEN TrimRight(SubSeq(s, 1, Len(s) - 1)) ELSE s

\* String.prototype.trim
Trim(s) == TrimRight(TrimLeft(s))

\* str.substring(0, n)
Substring0(s, n) == IF Len(s) <= n THEN s ELSE SubSeq(s, 1, n)

\* index of the first ch at or after position i, 0 when there is none
IndexFrom(s, ch, i) ==
    LET S == {j \in i..Len(s) : Char(s, j) = ch}
    IN  IF S = {} THEN 0 ELSE CHOOSE j \in S : \A k \in S : j <= k

\* str.startsWith(prefix)
StartsWith(s, prefix) ==
    Len(s) >= Len(prefix) /\ SubSeq(s, 1, Len(prefix)) = prefix

\* what [^"]* matches at the start of a text: everything before the first "
UpToQuote(s) ==
    LET q == IndexFrom(s, "\"", 1) IN IF q = 0 THEN s ELSE SubSeq(s, 1, q - 1)

\* the rest of the text, from its first " on
FromQuote(s) == SubSeq(s, Len(UpToQuote(s)) + 1, Len(s))

RECURSIVE StripTagsFrom(_, _)
StripTagsFrom(s, i) ==
    IF i > Len(s) THEN ""
    ELSE LET close == IF Char(s, i) = "<" THEN IndexFrom(s, ">", i + 1) ELSE 0
         IN  IF close > 0 THEN StripTagsFrom(s, close + 1)
             ELSE Char(s, i) \o StripTagsFrom(s, i + 1)

\* str.replace(/<[^>]*>/g, '')
StripTags(s) == StripTagsFrom(s, 1)

RECURSIVE StripEntitiesFrom(_, _)
StripEntitiesFrom(s, i) ==
    IF i > Len(s) THEN ""
    ELSE LET semi == IF Char(s, i) = "&" THEN IndexFrom(s, ";", i + 1) ELSE 0
         IN  IF semi > i + 1 THEN " " \o StripEntitiesFrom(s, semi + 1)
             ELSE Char(s, i) \o StripEntitiesFrom(s, i + 1)

\* str.replace(/&[^;]+;/g, ' ')
StripEntities(s) == StripEntitiesFrom(s, 1)

\* /^[a-zA-Z0-9_-]+$/.test(s)
ValidSlug(s) == Len(s) > 0 /\ \A i \in 1..Len(s) : Char(s, i) \in SlugChars

(***************************************************************************)
(* HTML documents                                                          *)
(*                                                                         *)
(* A tag is [k, f, v]: its kind, the way it is written and the text of its  *)
(* content (or href) attribute, or of its body for title, h1 and p.        *)
(*   f = "dq"  <meta name="K" content="V">       (as the code writes tags) *)
(*   f = "sc"  <meta name="K" content="V" />     (self-closing, as the     *)
(*             robots tag the noindex rule looks for)                      *)
(*   f = "ws"  <meta  name="K"  content="V">     (attributes separated by  *)
(*             more than one blank)                                        *)
(***************************************************************************)
Tag(k, f, v) == [k |-> k, f |-> f, v |-> v]

HEADCLOSE == Tag("/head", "dq", "")

\* <meta\s+name="K"\s+content="([^"]*)" with the i flag, and the same
\* pattern for <link\s+rel="canonical"\s+href= and <meta\s+property=
LooseMatch(t, kind) == t.k = kind

\* <meta name="description" content=".*?"> : single blanks, closed by ">
DescStrictMatch(t) == t.k = "description" /\ t.f = "dq"

\* <link rel="canonical" href=["'].*?["'][\s]*\/?>
CanonStrictMatch(t) == t.k = "canonical" /\ t.f \in {"dq", "sc"}

\* <title>.*?<\/title>
TitleMatch(t) == t.k = "title"

\* <meta name="K" content="index, follow" \/> for K robots or googlebot
IndexMatch(t, kind) == t.k = kind /\ t.f = "sc" /\ t.v = "index, follow"

\* the places of a document where a pattern matches are a set of indices
\* (hits); what a replacement puts at each place is a function of it (by)

\* the places where the detection pattern of a kind matches
Loose(html, kind) == {i \in 1..Len(html) : LooseMatch(html[i], kind)}

\* the places where /<title>.*?<\/title>/ matches
Titles(html) == {i \in 1..Len(html) : TitleMatch(html[i])}

\* the places where the replacement pattern of the description matches
StrictDescriptions(html) == {i \in 1..Len(html) : DescStrictMatch(html[i])}

\* the places where the replacement pattern of the canonical link matches
StrictCanonicals(html) == {i \in 1..Len(html) : CanonStrictMatch(html[i])}

\* a replacement string without reference to the match: the same tag at
\* every place
Same(html, tag) == [i \in 1..Len(html) |-> tag]

\* index of the first match, 0 when there is none
First(hits) ==
    IF hits = {} THEN 0 ELSE CHOOSE i \in hits : \A j \in hits : i <= j

\* html.replace(pattern, replacement) without the g flag: the first match
ReplaceFirst(html, hits, by) ==
    IF First(hits) = 0 THEN html
    ELSE [html EXCEPT ![First(hits)] = by[First(hits)]]

\* html.replace(/pattern/g, replacement): every match
ReplaceEvery(html, hits, by) ==
    [i \in 1..Len(html) |-> IF i \in hits THEN by[i] ELSE html[i]]

\* html.replace('</head>', block + '</head>'): the first occurrence of the
\* string, and no change when it does not occur
InsertAtHead(html, block) ==
    LET i == First({j \in 1..Len(html) : html[j] = HEADCLOSE})
    IN  IF i = 0 THEN html
        ELSE SubSeq(html, 1, i - 1) \o block \o SubSeq(html, i, Len(html))

\* the tags of one kind in a document
TagsOf(html, kind) == {i \in 1..Len(html) : html[i].k = kind}

\* the content of the tags of one kind, in document order
ContentsOf(html, kind) ==
    LET Is(t) == t.k = kind
        Val(t) == t.v
    IN  [i \in 1..Len(SelectSeq(html, Is)) |-> SelectSeq(html, Is)[i].v]

(***************************************************************************)
(* URLs and the environment                                                *)
(***************************************************************************)
RECURSIVE SplitFrom(_, _, _)
SplitFrom(s, sep, i) ==
    IF i > Len(s) + 1 THEN <<>>
    ELSE LET j == IndexFrom(s, sep, i)
             e == IF j = 0 THEN Len(s) + 1 ELSE j
         IN  <<SubSeq(s, i, e - 1)>> \o SplitFrom(s, sep, e + 1)

\* str.split(sep) for a single character sep
Split(s, sep) == SplitFrom(s, sep, 1)

\* url.pathname.split('/').filter(Boolean)
PathParts(pathname) ==
    LET NonEmpty(x) == x # "" IN SelectSeq(Split(pathname, "/"), NonEmpty)

\* new URL(s) succeeds: an absolute http(s) URL with a host
IsUrl(s) ==
    \/ StartsWith(s, "https://") /\ Len(s) > 8 /\ Char(s, 9) # "/"
    \/ StartsWith(s, "http://") /\ Len(s) > 7 /\ Char(s, 8) # "/"

SchemeLen(s) == IF StartsWith(s, "https://") THEN 8 ELSE 7

\* new URL(s).origin, for IsUrl(s)
UrlOrigin(s) ==
    LET j == IndexFrom(s, "/", SchemeLen(s) + 1)
    IN  IF j = 0 THEN s ELSE SubSeq(s, 1, j - 1)

\* new URL(s).pathname, for IsUrl(s) without query or fragment
UrlPathname(s) ==
    LET j == IndexFrom(s, "/", SchemeLen(s) + 1)
    IN  IF j = 0 THEN "/" ELSE SubSeq(s, j, Len(s))

\* x || y on strings
Or(x, y) == IF x # "" THEN x ELSE y

\* the origin of WORDPRESS_API_URL, '' when unset or not a URL
WpDomain(env) ==
    IF env.WORDPRESS_API_URL # "" /\ IsUrl(env.WORDPRESS_API_URL)
    THEN UrlOrigin(env.WORDPRESS_API_URL) ELSE ""

\* the dns-prefetch and preconnect links of the content API's domain
WpResourceLinks(wpDomain) ==
    IF wpDomain # ""
    THEN <<Tag("dns-prefetch", "sc", wpDomain), Tag("preconnect", "sc", wpDomain)>>
    ELSE <<>>

CloudinaryLinks ==
    <<Tag("dns-prefetch", "sc", "https://res.cloudinary.com"),
      Tag("preconnect", "sc", "https://res.cloudinary.com")>>

\* new Date().toISOString() at the time of the request
NowIso == "2025-01-01T00:00:00.000Z"

\* cond ? <<tag>> : ''
Opt(cond, tag) == IF cond THEN <<tag>> ELSE <<>>

\* html.match(/<meta\s+name="K"\s+content="([^"]*)"/i): is there a match
HasTag(html, kind) == First(Loose(html, kind)) # 0

\* match[1] of that match, '' when there is no match
Captured(html, kind) ==
    IF First(Loose(html, kind)) = 0 THEN ""
    ELSE UpToQuote(html[First(Loose(html, kind))].v)

\* the noindex rule of the bare templates: robots and googlebot lose index
NoindexHtml(html) ==
    LET Indexed(h, kind) == {i \in 1..Len(h) : IndexMatch(h[i], kind)}
        Flip(h) == [i \in 1..Len(h) |-> [h[i] EXCEPT !.v = "noindex, follow"]]
        h1 == ReplaceFirst(html, Indexed(html, "robots"), Flip(html))
    IN  ReplaceFirst(h1, Indexed(h1, "googlebot"), Flip(h1))

(***************************************************************************)
(* blog-meta: the rewrite of a post page                                   *)
(***************************************************************************)
\* the plain-text excerpt of a post
PostExcerpt(post) ==
    IF post.excerpt # ""
    THEN Substring0(Trim(StripEntities(StripTags(post.excerpt))), 160)
    ELSE ""

DefaultExcerpt == "Read this article for insights, tips, and valuable information."

\* the og:image tag of a post page, written only for a featured image
PostOgImage(featuredImage) ==
    Opt(featuredImage # "", Tag("og:image", "dq", featuredImage))

\* everything blog-meta puts in front of </head>
PostBlock(html, post, env, url, slug) ==
    LET excerpt == PostExcerpt(post)
        featuredImage == post.featured
        publishedDate == Or(post.date, NowIso)
        modifiedDate == Or(post.modified, publishedDate)
        authorName == Or(post.author, "Site Author")
        siteUrl == Or(env.SITE_URL, url.origin)
        siteTitle == env.SITE_TITLE
        socialHandle == env.SOCIAL_HANDLE
        cleanUrl == siteUrl \o "/blog/" \o slug
        safeTitle == escapeHtmlAttr(post.title)
        safeExcerpt == escapeHtmlAttr(Or(excerpt, DefaultExcerpt))
        fullTitle == safeTitle \o " | " \o siteTitle
        needsDescriptionInjection ==
            ~HasTag(html, "description") \/ Trim(Captured(html, "description")) = ""
        needsCanonicalInjection == ~HasTag(html, "canonical")
        needsAuthorInjection ==
            ~HasTag(html, "author") \/ Trim(Captured(html, "author")) = ""
        needsPublisherInjection ==
            ~HasTag(html, "publisher") \/ Trim(Captured(html, "publisher")) = ""
    IN  WpResourceLinks(WpDomain(env)) \o CloudinaryLinks
        \o Opt(needsCanonicalInjection, Tag("canonical", "dq", cleanUrl))
        \o Opt(needsDescriptionInjection, Tag("description", "dq", safeExcerpt))
        \o Opt(needsAuthorInjection, Tag("author", "dq", siteTitle))
        \o Opt(needsPublisherInjection, Tag("publisher", "dq", siteTitle))
        \o <<Tag("og:title", "dq", fullTitle),
             Tag("og:description", "dq", safeExcerpt),
             Tag("og:url", "dq", cleanUrl),
             Tag("og:type", "dq", "article")>>
        \o PostOgImage(featuredImage)
        \o <<Tag("og:site_name", "dq", siteTitle),
             Tag("og:locale", "dq", "en_GB"),
             Tag("twitter:card", "dq", "summary_large_image"),
             Tag("twitter:site", "dq", socialHandle),
             Tag("twitter:url", "dq", cleanUrl),
             Tag("twitter:title", "dq", fullTitle),
             Tag("twitter:description", "dq", safeExcerpt)>>
        \o Opt(featuredImage # "", Tag("twitter:image", "dq", featuredImage))
        \o <<Tag("ld:type", "dq", "BlogPosting"),
             Tag("ld:headline", "dq", fullTitle),
             Tag("ld:description", "dq", safeExcerpt),
             Tag("ld:url", "dq", cleanUrl),
             Tag("ld:datePublished", "dq", publishedDate),
             Tag("ld:dateModified", "dq", modifiedDate),
             Tag("ld:author", "dq", escapeHtmlAttr(authorName)),
             Tag("ld:publisher", "dq", siteTitle)>>
        \o Opt(featuredImage # "", Tag("ld:image", "dq", featuredImage))

\* the description of a post page replaced in place
PostReplaceDescription(html, safeExcerpt) ==
    ReplaceFirst(html, StrictDescriptions(html),
                 Same(html, Tag("description", "dq", safeExcerpt)))

\* transformedHtml of blog-meta
PostTransform(html, post, env, url, slug) ==
    LET siteUrl == Or(env.SITE_URL, url.origin)
        cleanUrl == siteUrl \o "/blog/" \o slug
        safeTitle == escapeHtmlAttr(post.title)
        safeExcerpt == escapeHtmlAttr(Or(PostExcerpt(post), DefaultExcerpt))
        h0 == ReplaceFirst(html, Titles(html),
                  Same(html, Tag("title", "dq", safeTitle \o " | " \o env.SITE_TITLE)))
        h1 == ReplaceFirst(h0, StrictCanonicals(h0),
                  Same(h0, Tag("canonical", "dq", cleanUrl)))
        h2 == IF HasTag(html, "description")
              THEN PostReplaceDescription(h1, safeExcerpt) ELSE h1
    IN  InsertAtHead(h2, PostBlock(html, post, env, url, slug))

(***************************************************************************)
(* category-meta: the rewrite of a category page                           *)
(***************************************************************************)
\* the og:image of a category page without the default image
CategoryImageNoDefault(fallbackImage, url) == fallbackImage

\* the og:image and twitter:image content of a category page
CategoryImage(fallbackImage, url) ==
    IF fallbackImage # "" THEN fallbackImage ELSE url.origin \o "/social.jpg"

\* everything category-meta puts in front of </head>
CategoryBlock(html, category, env, url, categorySlug, fallbackImage) ==
    LET description ==
            Or(category.description, "Browse " \o category.name \o " posts on our blog.")
        siteUrl == Or(env.SITE_URL, url.origin)
        siteTitle == env.SITE_TITLE
        socialHandle == env.SOCIAL_HANDLE
        cleanUrl == siteUrl \o "/blog/c/" \o categorySlug
        safeTitle == escapeHtmlAttr(category.name)
        safeDescription == escapeHtmlAttr(description)
        fullTitle == "Blog: " \o safeTitle \o " | " \o siteTitle
        needsDescriptionInjection ==
            ~HasTag(html, "description") \/ Trim(Captured(html, "description")) = ""
        needsCanonicalInjection == ~HasTag(html, "canonical")
        needsAuthorInjection ==
            ~HasTag(html, "author") \/ Trim(Captured(html, "author")) = ""
        needsPublisherInjection ==
            ~HasTag(html, "publisher") \/ Trim(Captured(html, "publisher")) = ""
    IN  WpResourceLinks(WpDomain(env)) \o CloudinaryLinks
        \o Opt(needsCanonicalInjection, Tag("canonical", "dq", cleanUrl))
        \o Opt(needsDescriptionInjection, Tag("description", "dq", safeDescription))
        \o Opt(needsAuthorInjection, Tag("author", "dq", siteTitle))
        \o Opt(needsPublisherInjection, Tag("publisher", "dq", siteTitle))
        \o <<Tag("og:title", "dq", fullTitle),
             Tag("og:description", "dq", safeDescription),
             Tag("og:url", "dq", cleanUrl),
             Tag("og:type", "dq", "website"),
             Tag("og:image", "dq", CategoryImage(fallbackImage, url)),
             Tag("og:site_name", "dq", siteTitle),
             Tag("og:locale", "dq", "en_GB"),
             Tag("twitter:card", "dq", "summary_large_image"),
             Tag("twitter:site", "dq", socialHandle),
             Tag("twitter:url", "dq", cleanUrl),
             Tag("twitter:title", "dq", fullTitle),
             Tag("twitter:description", "dq", safeDescription),
             Tag("twitter:image", "dq", CategoryImage(fallbackImage, url)),
             Tag("ld:type", "dq", "CollectionPage"),
             Tag("ld:name", "dq", fullTitle),
             Tag("ld:description", "dq", safeDescription),
             Tag("ld:url", "dq", cleanUrl),
             Tag("ld:isPartOf.name", "dq", siteTitle),
             Tag("ld:isPartOf.url", "dq", siteUrl)>>

\* the description of a category page replaced in place
CategoryReplaceDescription(html, safeDescription) ==
    ReplaceFirst(html, StrictDescriptions(html),
                 Same(html, Tag("description", "dq", safeDescription)))

\* transformedHtml of category-meta
CategoryTransform(html, category, env, url, categorySlug, fallbackImage) ==
    LET description ==
            Or(category.description, "Browse " \o category.name \o " posts on our blog.")
        siteUrl == Or(env.SITE_URL, url.origin)
        cleanUrl == siteUrl \o "/blog/c/" \o categorySlug
        safeTitle == escapeHtmlAttr(category.name)
        safeDescription == escapeHtmlAttr(description)
        \* <h1 id="category-title">[^<]*<\/h1> and the p of the description
        Texts(h, kind) ==
            {i \in 1..Len(h) : h[i].k = kind /\ IndexFrom(h[i].v, "<", 1) = 0}
        \* <x-blog-list id="category-posts"></x-blog-list>, no other attribute
        Lists(h) == {i \in 1..Len(h) : h[i].k = "x-blog-list" /\ h[i].f = "dq"}
        h0 == ReplaceFirst(html, Titles(html),
                  Same(html, Tag("title", "dq",
                                 "Blog: " \o safeTitle \o " | " \o env.SITE_TITLE)))
        h1 == ReplaceFirst(h0, StrictCanonicals(h0),
                  Same(h0, Tag("canonical", "dq", cleanUrl)))
        g1 == ReplaceEvery(h1, Texts(h1, "h1"),
                  Same(h1, Tag("h1", "dq", "Blog: " \o safeTitle)))
        g2 == ReplaceEvery(g1, Texts(g1, "p"), Same(g1, Tag("p", "dq", safeDescription)))
        h2 == ReplaceFirst(g2, Lists(g2),
                  Same(g2, Tag("x-blog-list", "category", category.id)))
        h3 == IF HasTag(html, "description")
              THEN CategoryReplaceDescription(h2, safeDescription) ELSE h2
    IN  InsertAtHead(h3,
            CategoryBlock(html, category, env, url, categorySlug, fallbackImage))

(***************************************************************************)
(* social-meta: the rewrite of every other page                            *)
(***************************************************************************)
\* pageTitle: the text of the title tag, or SITE_TITLE
PageTitle(html, env) ==
    IF First(Titles(html)) # 0 /\ html[First(Titles(html))].v # ""
    THEN Trim(html[First(Titles(html))].v) ELSE env.SITE_TITLE

\* fullTitle: "Page Title | Site Name"
FullTitle(pageTitle, siteTitle) ==
    IF pageTitle # "" /\ siteTitle # "" /\ pageTitle # siteTitle
    THEN pageTitle \o " | " \o siteTitle
    ELSE Or(pageTitle, siteTitle)

\* canonicalUrl: SITE_URL with the path of the canonical tag, or of the request
CanonicalUrl(html, env, url) ==
    LET siteUrl == Or(env.SITE_URL, url.origin)
        c == Captured(html, "canonical")
    IN  IF HasTag(html, "canonical") /\ Trim(c) # ""
        THEN IF IsUrl(c) THEN siteUrl \o UrlPathname(c)
             ELSE siteUrl \o (IF StartsWith(c, "/") THEN c ELSE "/" \o c)
        ELSE siteUrl \o url.pathname

\* url.pathname === '/blog' || url.pathname === '/blog/'
IsBlogListing(url) == url.pathname \in {"/blog", "/blog/"}

\* imageUrl before the latest post is asked for
SocialImage(html, env, url) ==
    IF HasTag(html, "og:image") THEN Captured(html, "og:image")
    ELSE Or(env.SITE_URL, url.origin) \o "/social.jpg"

\* everything social-meta puts in front of </head>
SocialBlock(html, env, url, imageUrl) ==
    LET siteTitle == env.SITE_TITLE
        fullTitle == FullTitle(PageTitle(html, env), siteTitle)
        existingDescription == Trim(Captured(html, "description"))
        description == Or(existingDescription, env.SITE_DESCRIPTION)
        canonicalUrl == CanonicalUrl(html, env, url)
        noDescription == ~HasTag(html, "description") \/ existingDescription = ""
        noAuthor == ~HasTag(html, "author") \/ Trim(Captured(html, "author")) = ""
        noPublisher ==
            ~HasTag(html, "publisher") \/ Trim(Captured(html, "publisher")) = ""
    IN  (IF IsBlogListing(url) THEN WpResourceLinks(WpDomain(env)) ELSE <<>>)
        \o CloudinaryLinks
        \o Opt(~HasTag(html, "canonical"), Tag("canonical", "dq", canonicalUrl))
        \o Opt(noDescription /\ description # "", Tag("description", "dq", description))
        \o Opt(noAuthor, Tag("author", "dq", siteTitle))
        \o Opt(noPublisher, Tag("publisher", "dq", siteTitle))
        \o <<Tag("og:type", "dq", "website"),
             Tag("og:url", "dq", canonicalUrl),
             Tag("og:title", "dq", fullTitle),
             Tag("og:description", "dq", description),
             Tag("og:image", "dq", imageUrl),
             Tag("og:site_name", "dq", siteTitle),
             Tag("og:locale", "dq", "en_GB"),
             Tag("twitter:card", "dq", "summary_large_image"),
             Tag("twitter:site", "dq", env.SOCIAL_HANDLE),
             Tag("twitter:url", "dq", canonicalUrl),
             Tag("twitter:title", "dq", fullTitle),
             Tag("twitter:description", "dq", description),
             Tag("twitter:image", "dq", imageUrl),
             Tag("ld:type", "dq",
                 IF IsBlogListing(url) THEN "CollectionPage" ELSE "WebPage"),
             Tag("ld:name", "dq", fullTitle),
             Tag("ld:description", "dq", description),
             Tag("ld:url", "dq", canonicalUrl),
             Tag("ld:image", "dq", imageUrl),
             Tag("ld:publisher", "dq", siteTitle)>>

\* the title of a page replaced by fullTitle
SocialReplaceTitle(html, fullTitle) ==
    ReplaceFirst(html, Titles(html), Same(html, Tag("title", "dq", fullTitle)))

\* transformedHtml of social-meta; replacing content="[^"]*" keeps what
\* follows the first double quote of the old value
SocialTransform(html, env, url, imageUrl) ==
    LET fullTitle == FullTitle(PageTitle(html, env), env.SITE_TITLE)
        canonicalUrl == CanonicalUrl(html, env, url)
        PutUrl(h) ==
            [i \in 1..Len(h) |-> [h[i] EXCEPT !.v = canonicalUrl \o FromQuote(h[i].v)]]
        h1 == InsertAtHead(html, SocialBlock(html, env, url, imageUrl))
        h2 == SocialReplaceTitle(h1, fullTitle)
        h3 == ReplaceFirst(h2, Loose(h2, "canonical"), PutUrl(h2))
        h4 == ReplaceFirst(h3, Loose(h3, "og:url"), PutUrl(h3))
    IN  ReplaceFirst(h4, Loose(h4, "twitter:url"), PutUrl(h4))

(***************************************************************************)
(* get-blog: the function behind /.netlify/functions/get-blog              *)
(***************************************************************************)
\* a JavaScript number: an integer, or NaN
Num(n) == [nan |-> FALSE, n |-> n]
NaN == [nan |-> TRUE, n |-> 0]

DigitValue(c) ==
    CASE c = "0" -> 0 [] c = "1" -> 1 [] c = "2" -> 2 [] c = "3" -> 3 [] c = "4" -> 4
      [] c = "5" -> 5 [] c = "6" -> 6 [] c = "7" -> 7 [] c = "8" -> 8 [] c = "9" -> 9

RECURSIVE DigitsValue(_, _, _)
\* the value of the digits of s from position i on, after the value acc
DigitsValue(s, i, acc) ==
    IF i > Len(s) \/ Char(s, i) \notin Digits THEN acc
    ELSE DigitsValue(s, i + 1, 10 * acc + DigitValue(Char(s, i)))

\* parseInt(str, 10): blanks, a sign, then digits up to the first other
\* character; NaN without a digit
ParseInt(str) ==
    LET t == TrimLeft(str)
        signed == Len(t) > 0 /\ Char(t, 1) \in {"-", "+"}
        d == IF signed THEN 2 ELSE 1
    IN  IF d > Len(t) \/ Char(t, d) \notin Digits THEN NaN
        ELSE LET v == DigitsValue(t, d, 0)
             IN  Num(IF signed /\ Char(t, 1) = "-" THEN 0 - v ELSE v)

\* Math.max(a, x) and Math.min(a, x) for an integer a: NaN stays NaN
MathMax(a, x) == IF x.nan THEN NaN ELSE Num(IF x.n > a THEN x.n ELSE a)
MathMin(a, x) == IF x.nan THEN NaN ELSE Num(IF x.n < a THEN x.n ELSE a)

\* a number used as a condition: NaN and 0 are false
Truthy(x) == ~x.nan /\ x.n # 0

\* offset: Math.max(0, parseInt(offset || '0', 10))
GbOffset(q) == MathMax(0, ParseInt(Or(q.offset, "0")))

\* validatedPosts: null (here NaN, as false as null) without posts
GbValidatedPosts(q) ==
    IF q.posts # "" THEN MathMin(100, MathMax(1, ParseInt(q.posts))) ELSE NaN

\* the preview check without the test for a missing PREVIEW_TOKEN
GbUnauthorizedIfConfigured(q, e) ==
    q.preview = "true" /\ e.PREVIEW_TOKEN # "" /\ q.token # e.PREVIEW_TOKEN

\* the preview check fails: no PREVIEW_TOKEN, or another token
GbUnauthorized(q, e) ==
    q.preview = "true" /\ (e.PREVIEW_TOKEN = "" \/ q.token # e.PREVIEW_TOKEN)

\* a variant of wpUrl that looks at the slug before the categories
GbWpUrlSlugFirst(q) ==
    LET base == [kind |-> "default", slug |-> "", drafts |-> FALSE,
                 perPage |-> Num(10), offset |-> Num(0), categories |-> ""]
    IN  IF q.slug # ""
        THEN [base EXCEPT !.kind = "slug", !.slug = q.slug,
                          !.drafts = (q.preview = "true")]
        ELSE IF q.categories # ""
        THEN [base EXCEPT !.kind = "categories", !.perPage = Num(100)]
        ELSE IF Truthy(GbValidatedPosts(q))
        THEN [base EXCEPT !.kind = "list", !.perPage = GbValidatedPosts(q),
                          !.offset = GbOffset(q), !.categories = q.category]
        ELSE base

\* wpUrl, as the query it asks WordPress
GbWpUrl(q) ==
    LET base == [kind |-> "default", slug |-> "", drafts |-> FALSE,
                 perPage |-> Num(10), offset |-> Num(0), categories |-> ""]
    IN  IF q.categories # ""
        THEN [base EXCEPT !.kind = "categories", !.perPage = Num(100)]
        ELSE IF q.slug # ""
        THEN [base EXCEPT !.kind = "slug", !.slug = q.slug,
                          !.drafts = (q.preview = "true")]
        ELSE IF Truthy(GbValidatedPosts(q))
        THEN [base EXCEPT !.kind = "list", !.perPage = GbValidatedPosts(q),
                          !.offset = GbOffset(q), !.categories = q.category]
        ELSE base

\* new Response(JSON.stringify({error, message}), {status})
GbError(status, error, message) ==
    [status |-> status, error |-> error, message |-> message, drafts |-> FALSE]

GbUnauthorizedResponse == GbError(401, "Unauthorized", "Invalid preview token")

\* the catch of the handler
GbFailed(message) == GbError(500, "Failed to fetch blog posts", message)

\* the handler throws in front of its try
GbThrown == GbError(0, "thrown", "WORDPRESS_API_URL environment variable is required")

\* new Response(JSON.stringify(data), {status: 200}): the posts WordPress
\* gave, drafts among them when the query asked for them
GbData(wpUrl) == [status |-> 200, error |-> "", message |-> "", drafts |-> wpUrl.drafts]

\* getJWTToken returns null in front of its fetch
GbNoCredentials(e) == e.WP_USERNAME = "" \/ e.WP_PASSWORD = ""

(***************************************************************************)
(* The inputs: requests, environments, origin pages, content API answers   *)
(***************************************************************************)
Url(pathname, slug, cat) ==
    [origin |-> "https://req.example", pathname |-> pathname, slug |-> slug, cat |-> cat]

\* config of blog-meta
PostConfig == [path |-> {"/blog/*"}, excludedPath |-> {}]

\* config of category-meta
CategoryConfig == [path |-> {"/blog/c/*", "/blog/category.html"}, excludedPath |-> {}]

\* config of social-meta
SocialConfig == [path |-> {"/*"}, excludedPath |-> {"/blog/*", "/404", "/404.html"}]

\* a path pattern matches a pathname: a pattern ending in /* matches every
\* pathname that starts with what is in front of the *, any other pattern
\* matches the pathname equal to it
PathMatches(pattern, pathname) ==
    IF Len(pattern) >= 2 /\ SubSeq(pattern, Len(pattern) - 1, Len(pattern)) = "/*"
    THEN StartsWith(pathname, SubSeq(pattern, 1, Len(pattern) - 1))
    ELSE pathname = pattern

\* the edge function with this config runs on the pathname
RunsOn(config, pathname) ==
    /\ \E p \in config.path : PathMatches(p, pathname)
    /\ ~\E p \in config.excludedPath : PathMatches(p, pathname)

\* the rewriters configured to run on a pathname
Configured(pathname) ==
    {r \in {"post", "category", "social"} :
        RunsOn(CASE r = "post" -> PostConfig
                 [] r = "category" -> CategoryConfig
                 [] OTHER -> SocialConfig, pathname)}

\* requests on the paths of blog-meta (config.path '/blog/*')
PostUrls ==
    {Url(p, "", "") : p \in {"/blog/", "/blog/index.html", "/blog/post",
                             "/blog/post.html", "/blog/my-post", "/blog/my-post!"}}
    \cup {Url("/blog/post", q, "") : q \in {"my-post", "my-post!", "post", "post.html"}}

\* requests on the paths of category-meta ('/blog/c/*', '/blog/category.html')
CategoryUrls ==
    {Url(p, "", "") : p \in {"/blog/category.html", "/blog/c/news", "/blog/c/events",
                             "/blog/c/ne!ws", "/blog/c/"}}
    \cup {Url("/blog/category.html", "", q) : q \in {"events", "ne!ws"}}

\* requests social-meta may see ('/*')
SocialUrls ==
    {Url(p, "", "") : p \in {"/about", "/blog", "/blog/", "/blog/my-post",
                             "/404", "/404.html"}}
    \cup {Url("/blog", "my-post", "")}

Envs ==
    {[SITE_URL |-> "https://site.example", SITE_TITLE |-> "Site",
      SOCIAL_HANDLE |-> "@site", SITE_DESCRIPTION |-> "Site description",
      WORDPRESS_API_URL |-> "https://cms.example/wp-json/wp/v2"],
     [SITE_URL |-> "", SITE_TITLE |-> "", SOCIAL_HANDLE |-> "",
      SITE_DESCRIPTION |-> "", WORDPRESS_API_URL |-> ""]}

Forms == {"dq", "sc", "ws"}

\* a page of the site's templates: d says which head tags it has and how
\* they are written (links: the canonical link and the og:image, og:url and
\* twitter:url tags of a page that has static social tags)
Template(d) ==
    Opt(d.title, Tag("title", "dq", "About"))
    \o <<Tag("robots", d.form, "index, follow"),
         Tag("googlebot", d.form, "index, follow")>>
    \o Opt(d.desc # "none",
           Tag("description", d.form, IF d.desc = "text" THEN "existing" ELSE ""))
    \o Opt(d.links, Tag("canonical", d.form, "https://old.example/about"))
    \o Opt(d.auth # "none",
           Tag("author", d.form, IF d.auth = "text" THEN "Someone" ELSE ""))
    \o Opt(d.auth # "none",
           Tag("publisher", d.form, IF d.auth = "text" THEN "Somebody" ELSE ""))
    \o Opt(d.links, Tag("og:image", d.form, "https://old.example/og.jpg"))
    \o Opt(d.links, Tag("og:url", d.form, "https://old.example/about"))
    \o Opt(d.links, Tag("twitter:url", d.form, "https://old.example/about"))
    \o Opt(d.heads >= 1, HEADCLOSE)
    \o <<Tag("h1", "dq", "Category"), Tag("p", "dq", "Posts"),
         Tag("x-blog-list", "dq", "")>>
    \o [i \in 1..(IF d.heads >= 1 THEN d.heads - 1 ELSE 0) |-> HEADCLOSE]

Templates ==
    {Template(d) : d \in [form : Forms, title : BOOLEAN, desc : {"none", "empty", "text"},
                          links : BOOLEAN, auth : {"none", "empty", "text"},
                          heads : 0..MaxHeadClose]}

HtmlHeaders == [ctype |-> "text/html", cache |-> "", location |-> ""]

\* what the origin can answer: a page of the templates, or an error page
HtmlPages ==
    {[status |-> 200, headers |-> HtmlHeaders, html |-> h] : h \in Templates}
    \cup {[status |-> st, headers |-> HtmlHeaders,
           html |-> Template([form |-> "sc", title |-> TRUE, desc |-> "text",
                              links |-> TRUE, auth |-> "none",
                              heads |-> 1])] : st \in {404, 500}}

\* a stylesheet: social-meta runs on every path
OtherPages ==
    {[status |-> 200, headers |-> [HtmlHeaders EXCEPT !.ctype = "text/css"],
      html |-> <<Tag("text", "dq", "body{}")>>]}

NoPage == [status |-> 0, headers |-> HtmlHeaders, html |-> <<>>]

\* posts the content API can return for a slug
Post(title, hasTitle, excerpt, featured, date, author) ==
    [title |-> title, hasTitle |-> hasTitle, excerpt |-> excerpt, featured |-> featured,
     date |-> date, modified |-> "", author |-> author]

Posts ==
    {Post("Hello", TRUE, "<p>An &amp; excerpt</p>", "https://cdn.example/a.jpg",
          "2024-05-01T10:00:00", "Ann"),
     Post("Tom & \"Jerry\" <b>", TRUE, "", "", "", ""),
     Post("Hi", TRUE, "It's \"x\"", "https://cdn.example/a.jpg?x=\"y\"",
          "2024\"05", "O'Neil"),
     Post("", FALSE, "", "", "", "")}

NoRec == Post("", FALSE, "", "", "", "")

\* categories the content API can return
Category(slug, name, hasName, description) ==
    [slug |-> slug, name |-> name, hasName |-> hasName, description |-> description,
     id |-> "7"]

CategoryLists ==
    {<<Category("music", "Music", TRUE, ""), Category("news", "News", TRUE, "All news")>>,
     <<Category("news", "R&B \"live\"", TRUE, "")>>,
     <<Category("news", "", FALSE, "")>>,
     <<>>}

NoCategory == Category("", "", FALSE, "")

\* featured images of the latest post: none, or a URL
LatestImages == {"", "https://cdn.example/latest.jpg"}

(***************************************************************************)
(* The edge functions as a state machine: one request at a time.           *)
(***************************************************************************)
VARIABLES
    rw,            \* the edge function that runs: "post", "category", "social"
    url,           \* the request
    env,           \* process.env
    pc,            \* where the handler is: start, fetch1, rewrite, origin, fetch2, done
    slug,          \* slug / categorySlug once resolved
    post,          \* posts[0] of the post lookup
    category,      \* the category found in the categories list
    page,          \* the origin's answer for this path (NoPage: not asked yet)
    categories,    \* the categories list as fetched
    image,         \* the featured image of the latest post, '' for none
    fetches,       \* the content API calls issued for this request, in order
    results,       \* how each of them ended: threw, not-ok, bad-json, ok
    nextCalls,     \* how often context.next() was called for this request
    resp,          \* the response returned
    pass,          \* which pass over the document this request is
    firstOut,      \* the document the first pass produced
    gbReq,         \* get-blog: the query parameters of the request
    gbEnv,         \* get-blog: process.env
    gbPc,          \* get-blog: where the handler is: start, jwt, wp, done
    gbCalls,       \* get-blog: the calls to WordPress issued, in order
    gbResults,     \* get-blog: how each of them ended
    gbResp         \* get-blog: the response returned

edgeVars == <<rw, url, env, pc, slug, post, category, categories, image, page, fetches,
              results, nextCalls, resp, pass, firstOut>>

gbVars == <<gbReq, gbEnv, gbPc, gbCalls, gbResults, gbResp>>

(***************************************************************************)
(* The components of the page: the blog list and the primary navigation.   *)
(***************************************************************************)
VARIABLES
    blPc,            \* connectedCallback: "new", "categories" (awaits loadCategories), "ready"
    blIsConnected,   \* this.isConnected
    blAttr,          \* the category attribute ("" for none)
    blLocation,      \* window.location: the slug of /blog/c/{slug}, ?category=
    blCategory,      \* this.category ("" for null)
    blCategorySlug,  \* this.categorySlug ("" for null)
    blCategories,    \* this.categories
    blAllPosts,      \* this.allPosts
    blIsLoading,     \* this.isLoading
    blDisplayCount,  \* this.displayCount
    blView,          \* shadowRoot.innerHTML
    blLoads,         \* the calls of loadAllPosts, in the order they were made
    blLast,          \* how the call of loadAllPosts that settled last ended
    blChanges        \* how often the category attribute was changed

VARIABLES
    navConnected,     \* this.isConnected
    navInitialized,   \* #initialized: the document and window listeners are on
    navMenu,          \* #menuItems: how many of the items have a sub-menu
    navRendered,      \* the shadow root has its content
    navToggleVisible, \* getComputedStyle(toggleBtn).display !== 'none'
    navOpen,          \* navList has class is-open
    navExpanded,      \* aria-expanded of the toggle button
    navInert,         \* navList has the inert attribute
    navSubOpen,       \* the sub-menus that are open (aria-expanded of their parent links)
    navFocus          \* the toggle button was given the focus

blVars == <<blPc, blIsConnected, blAttr, blLocation, blCategory, blCategorySlug,
            blCategories, blAllPosts, blIsLoading, blDisplayCount, blView, blLoads,
            blLast, blChanges>>

navVars == <<navConnected, navInitialized, navMenu, navRendered, navToggleVisible,
             navOpen, navExpanded, navInert, navSubOpen, navFocus>>

uiVars == <<blVars, navVars>>


vars == <<edgeVars, gbVars, uiVars>>

NoResp == [via |-> "none", status |-> 0, headers |-> HtmlHeaders, body |-> <<>>]

\* return context.next(), or return the response it gave
Upstream(via, p) ==
    [via |-> via, status |-> p.status, headers |-> p.headers, body |-> p.html]

RewrittenHeaders ==
    [ctype |-> "text/html; charset=utf-8", cache |-> "public, max-age=3600",
     location |-> ""]

NoindexHeaders == [ctype |-> "text/html; charset=utf-8", cache |-> "", location |-> ""]

\* new Response(body, {status, headers})
NewResponse(via, status, headers, body) ==
    [via |-> via, status |-> status, headers |-> headers, body |-> body]

\* a response built without the status option answers 200
RewriteStatusOk(p) == 200

\* the status a rewritten page is sent with
RewriteStatus(p) == p.status

\* the pages the origin can answer a request of this edge function with
Pages == IF rw = "social" THEN HtmlPages \cup OtherPages ELSE HtmlPages

\* what context.next() can return: the origin answers the same when asked again
Origin == IF page = NoPage THEN Pages ELSE {page}

\* context.next() returns p
ContextNext(p) == page' = p

EdgeInit ==
    /\ rw \in {"post", "category", "social"}
    /\ url \in (IF rw = "post" THEN PostUrls
                ELSE IF rw = "category" THEN CategoryUrls ELSE SocialUrls)
    /\ env \in Envs
    /\ pc = "start"
    /\ slug = ""
    /\ post = NoRec
    /\ category = NoCategory
    /\ categories = <<>>
    /\ image = ""
    /\ page = NoPage
    /\ fetches = <<>>
    /\ results = <<>>
    /\ nextCalls = 0
    /\ resp = NoResp
    /\ pass = 1
    /\ firstOut = <<>>

\* the handler returns the origin's page as it is
PassThrough(via, calls) ==
    \E p \in Origin :
        /\ ContextNext(p)
        /\ nextCalls' = nextCalls + calls
        /\ resp' = Upstream(via, p)
        /\ pc' = "done"

\* a variant that issues the call again at once
FetchTwice(query) == fetches' = Append(Append(fetches, query), query)

\* fetch(`${url.origin}/.netlify/functions/get-blog?...`) is issued
Fetch(query) == fetches' = Append(fetches, query)

\* the ways a fetch and the reading of its JSON body can fail
Failures == {"threw", "not-ok", "bad-json"}

\* the fetch ends
Fetched(result) == results' = Append(results, result)

(***************************************************************************)
(* blog-meta                                                               *)
(***************************************************************************)
\* url.searchParams.get('slug'), else the last part of the path
PostSlug(u) ==
    IF u.slug # "" THEN u.slug
    ELSE LET parts == PathParts(u.pathname)
         IN  IF parts = <<>> THEN "" ELSE parts[Len(parts)]

\* a variant that knows the bare template by the name post only
PostIsBareTemplateNoExtension(u) == u.slug = "" /\ PostSlug(u) = "post"

\* the bare template is recognised only when the slug came from the path
PostIsBareTemplate(u) == u.slug = "" /\ PostSlug(u) \in {"post", "post.html"}

PostIsListing(u) == u.pathname \in {"/blog", "/blog/", "/blog/index.html"}

\* the checks in front of the lookup without the test of the slug pattern
PostLooksUpUnvalidated(u) ==
    /\ ~PostIsListing(u)
    /\ ~PostIsBareTemplate(u)
    /\ PostSlug(u) # ""

\* the slug passes the checks in front of the lookup
PostLooksUp(u) ==
    /\ ~PostIsListing(u)
    /\ ~PostIsBareTemplate(u)
    /\ PostSlug(u) # ""
    /\ ValidSlug(PostSlug(u))

PostStart ==
    /\ rw = "post" /\ pc = "start"
    /\ slug' = IF PostIsListing(url) THEN "" ELSE PostSlug(url)
    /\ \/ /\ PostIsListing(url)
          /\ PassThrough("skip", 1)
          /\ UNCHANGED fetches
       \/ /\ ~PostIsListing(url) /\ PostIsBareTemplate(url)
          /\ \E p \in Origin :
                /\ ContextNext(p)
                /\ resp' = NewResponse("noindex", p.status, NoindexHeaders,
                                       NoindexHtml(p.html))
          /\ nextCalls' = nextCalls + 1
          /\ pc' = "done"
          /\ UNCHANGED fetches
       \/ /\ ~PostIsListing(url) /\ ~PostIsBareTemplate(url)
          /\ ~PostLooksUp(url)
          /\ PassThrough("invalid", 1)
          /\ UNCHANGED fetches
       \/ /\ PostLooksUp(url)
          /\ Fetch([fn |-> "slug", arg |-> PostSlug(url)])
          /\ pc' = "fetch1"
          /\ UNCHANGED <<page, nextCalls, resp>>
    /\ UNCHANGED <<rw, url, env, post, category, categories, image, results, pass,
                   firstOut>>
    /\ UNCHANGED <<gbVars, uiVars>>

\* the post lookup ends: it throws, is not OK, has no JSON body, or answers
PostFetchDone ==
    /\ rw = "post" /\ pc = "fetch1"
    /\ \/ /\ \E f \in Failures : Fetched(f)
          /\ PassThrough("pass", 1)
          /\ UNCHANGED post
       \/ /\ Fetched("ok")
          /\ PassThrough("pass", 1)
          /\ UNCHANGED post
       \/ /\ Fetched("ok")
          /\ \E p \in Posts : post' = p
          /\ pc' = "rewrite"
          /\ UNCHANGED <<page, nextCalls, resp>>
    /\ UNCHANGED <<rw, url, env, slug, category, categories, image, fetches, pass,
                   firstOut>>
    /\ UNCHANGED <<gbVars, uiVars>>

\* context.next(), then the head is rewritten; reading post.title.rendered
\* of a record without title throws, and the catch asks the origin again
PostRewrite ==
    /\ rw = "post" /\ pc = "rewrite"
    /\ \/ /\ post.hasTitle
          /\ \E p \in Origin :
                /\ ContextNext(p)
                /\ resp' = NewResponse("rewrite", RewriteStatus(p), RewrittenHeaders,
                                       PostTransform(p.html, post, env, url, slug))
          /\ nextCalls' = nextCalls + 1
          /\ pc' = "done"
       \/ /\ ~post.hasTitle
          /\ PassThrough("catch", 2)
    /\ UNCHANGED <<rw, url, env, slug, post, category, categories, image, fetches,
                   results, pass, firstOut>>
    /\ UNCHANGED <<gbVars, uiVars>>

(***************************************************************************)
(* category-meta                                                           *)
(***************************************************************************)
\* url.searchParams.get('cat'), else the third part of /blog/c/{slug}, which
\* alone is checked against the slug pattern
CategorySlug(u) ==
    IF u.cat # "" THEN u.cat
    ELSE IF StartsWith(u.pathname, "/blog/c/")
    THEN LET parts == PathParts(u.pathname)
             s == IF Len(parts) >= 3 THEN parts[3] ELSE ""
         IN  IF s # "" /\ ~ValidSlug(s) THEN "" ELSE s
    ELSE ""

\* categories.find(cat => cat.slug === categorySlug): the matching indexes
CategoryMatches(cats, s) ==
    {i \in 1..Len(cats) : cats[i].slug = s}

\* the unknown category answered with a redirect to the error page
CategoryNotFoundRedirect ==
    [via |-> "not-found", status |-> 302,
     headers |-> [ctype |-> "", cache |-> "", location |-> "/404"], body |-> <<>>]

\* the response for a slug no category has
CategoryNotFound ==
    NewResponse("not-found", 404, [ctype |-> "", cache |-> "", location |-> "/404"], <<>>)

CategoryStart ==
    /\ rw = "category" /\ pc = "start"
    /\ slug' = CategorySlug(url)
    /\ \/ /\ CategorySlug(url) = "" /\ url.pathname = "/blog/category.html"
          /\ \E p \in Origin :
                /\ ContextNext(p)
                /\ resp' = NewResponse("noindex", p.status, NoindexHeaders,
                                       NoindexHtml(p.html))
          /\ nextCalls' = nextCalls + 1
          /\ pc' = "done"
          /\ UNCHANGED fetches
       \/ /\ CategorySlug(url) = "" /\ url.pathname # "/blog/category.html"
          /\ PassThrough("invalid", 1)
          /\ UNCHANGED fetches
       \/ /\ CategorySlug(url) # ""
          /\ Fetch([fn |-> "categories", arg |-> "true"])
          /\ pc' = "fetch1"
          /\ UNCHANGED <<page, nextCalls, resp>>
    /\ UNCHANGED <<rw, url, env, post, category, categories, image, results, pass,
                   firstOut>>
    /\ UNCHANGED <<gbVars, uiVars>>

\* the categories lookup ends
CategoryFetchDone ==
    /\ rw = "category" /\ pc = "fetch1"
    /\ \/ /\ \E f \in Failures : Fetched(f)
          /\ PassThrough("pass", 1)
          /\ UNCHANGED <<category, categories>>
       \/ /\ Fetched("ok")
          /\ \E cats \in CategoryLists :
                /\ categories' = cats
                /\ CategoryMatches(cats, slug) = {}
          /\ resp' = CategoryNotFound
          /\ pc' = "done"
          /\ UNCHANGED <<category, page, nextCalls>>
       \/ /\ Fetched("ok")
          /\ \E cats \in CategoryLists :
                /\ categories' = cats
                /\ CategoryMatches(cats, slug) # {}
                /\ category' =
                       cats[CHOOSE i \in CategoryMatches(cats, slug) :
                                \A j \in CategoryMatches(cats, slug) : i <= j]
          /\ pc' = "origin"
          /\ UNCHANGED <<page, nextCalls, resp>>
    /\ UNCHANGED <<rw, url, env, slug, post, image, fetches, pass, firstOut>>
    /\ UNCHANGED <<gbVars, uiVars>>

\* context.next(); escaping the name of a category without name throws;
\* otherwise the latest post of the category is asked for
CategoryOrigin ==
    /\ rw = "category" /\ pc = "origin"
    /\ \/ /\ category.hasName
          /\ \E p \in Origin : ContextNext(p)
          /\ nextCalls' = nextCalls + 1
          /\ Fetch([fn |-> "posts", arg |-> "1&category=" \o category.id])
          /\ pc' = "fetch2"
          /\ UNCHANGED resp
       \/ /\ ~category.hasName
          /\ PassThrough("catch", 2)
          /\ UNCHANGED fetches
    /\ UNCHANGED <<rw, url, env, slug, post, category, categories, image, results,
                   pass, firstOut>>
    /\ UNCHANGED <<gbVars, uiVars>>

\* the response of category-meta for a fallback image ('' for null)
CategoryRespond(fallbackImage) ==
    /\ image' = fallbackImage
    /\ resp' = NewResponse("rewrite", RewriteStatus(page), RewrittenHeaders,
                   CategoryTransform(page.html, category, env, url, slug, fallbackImage))
    /\ pc' = "done"

\* the lookup of the latest post ends; its failure is logged and the page is
\* rewritten without a fallback image
CategoryFetch2Done ==
    /\ rw = "category" /\ pc = "fetch2"
    /\ \/ /\ \E f \in Failures : Fetched(f)
          /\ CategoryRespond("")
       \/ /\ Fetched("ok")
          /\ \E img \in LatestImages : CategoryRespond(img)
    /\ UNCHANGED <<rw, url, env, slug, post, category, categories, page, fetches,
                   nextCalls, pass, firstOut>>
    /\ UNCHANGED <<gbVars, uiVars>>

(***************************************************************************)
(* social-meta                                                             *)
(***************************************************************************)
\* the paths social-meta leaves to the other edge functions, and the 404 page
SocialSkips(u) ==
    \/ StartsWith(u.pathname, "/blog/")
    \/ u.pathname = "/blog" /\ u.slug # ""
    \/ u.pathname \in {"/404", "/404.html"}

\* the response of social-meta for an image URL
SocialRespond(p, imageUrl) ==
    /\ resp' = NewResponse("rewrite", RewriteStatus(p), p.headers,
                           SocialTransform(p.html, env, url, imageUrl))
    /\ pc' = "done"

\* the latest post is asked for: the blog listing without og:image tag
SocialNeedsImage(u, html) == IsBlogListing(u) /\ ~HasTag(html, "og:image")

SocialStart ==
    /\ rw = "social" /\ pc = "start"
    /\ \/ /\ SocialSkips(url)
          /\ PassThrough("skip", 1)
          /\ UNCHANGED fetches
       \/ /\ ~SocialSkips(url)
          /\ \E p \in Origin :
                /\ ContextNext(p)
                /\ p.headers.ctype # "text/html"
                /\ resp' = Upstream("not-html", p)
                /\ pc' = "done"
          /\ nextCalls' = nextCalls + 1
          /\ UNCHANGED fetches
       \/ /\ ~SocialSkips(url)
          /\ \E p \in Origin :
                /\ ContextNext(p)
                /\ p.headers.ctype = "text/html"
                /\ SocialNeedsImage(url, p.html)
          /\ nextCalls' = nextCalls + 1
          /\ Fetch([fn |-> "posts", arg |-> "1"])
          /\ pc' = "fetch2"
          /\ UNCHANGED resp
       \/ /\ ~SocialSkips(url)
          /\ \E p \in Origin :
                /\ ContextNext(p)
                /\ p.headers.ctype = "text/html"
                /\ ~SocialNeedsImage(url, p.html)
                /\ SocialRespond(p, SocialImage(p.html, env, url))
          /\ nextCalls' = nextCalls + 1
          /\ UNCHANGED fetches
    /\ UNCHANGED <<rw, env, url, slug, post, category, categories, image, results,
                   pass, firstOut>>
    /\ UNCHANGED <<gbVars, uiVars>>

\* the lookup of the latest post ends; without an image of it the default
\* image stays
SocialFetch2Done ==
    /\ rw = "social" /\ pc = "fetch2"
    /\ \/ /\ \E f \in Failures : Fetched(f)
          /\ image' = ""
          /\ SocialRespond(page, SocialImage(page.html, env, url))
       \/ /\ Fetched("ok")
          /\ \E img \in LatestImages :
                /\ image' = img
                /\ SocialRespond(page, Or(img, SocialImage(page.html, env, url)))
    /\ UNCHANGED <<rw, url, env, slug, post, category, categories, page, fetches,
                   nextCalls, pass, firstOut>>
    /\ UNCHANGED <<gbVars, uiVars>>

(***************************************************************************)
(* The rewritten page becomes the origin page of the next request for the  *)
(* same resource: the head rewrite is applied to its own output.           *)
(***************************************************************************)
IsRewrite(r) == r.via = "rewrite"

Resubmit ==
    /\ pc = "done" /\ IsRewrite(resp) /\ pass < MaxPasses
    /\ page' = [page EXCEPT !.html = resp.body]
    /\ firstOut' = IF pass = 1 THEN resp.body ELSE firstOut
    /\ pass' = pass + 1
    /\ pc' = IF rw = "post" THEN "rewrite" ELSE IF rw = "category" THEN "origin" ELSE "start"
    /\ resp' = NoResp
    /\ nextCalls' = 0
    /\ fetches' = <<>>
    /\ results' = <<>>
    /\ image' = ""
    /\ UNCHANGED <<rw, url, env, slug, post, category, categories>>
    /\ UNCHANGED <<gbVars, uiVars>>

(***************************************************************************)
(* get-blog as a state machine: one request at a time                      *)
(***************************************************************************)
GbQuery(slug_, posts, offset, cat, cats, preview, token) ==
    [slug |-> slug_, posts |-> posts, offset |-> offset, category |-> cat,
     categories |-> cats, preview |-> preview, token |-> token]

GbQueries ==
    {GbQuery(s, p, o, c, cs, pv, t) :
        s \in {"", "my-post"}, p \in {"", "5", "0", "-3", "500", "abc"},
        o \in {"", "20", "-5", "abc"}, c \in {"", "7"}, cs \in {"", "true"},
        pv \in {"", "true"}, t \in {"", "secret", "wrong"}}

GbEnvs ==
    [PREVIEW_TOKEN : {"", "secret"},
     WORDPRESS_API_URL : {"", "https://cms.example/wp-json/wp/v2"},
     WP_USERNAME : {"", "editor"},
     WP_PASSWORD : {"pw"}]
    \cup {[PREVIEW_TOKEN |-> "secret",
           WORDPRESS_API_URL |-> "https://cms.example/wp-json/wp/v2",
           WP_USERNAME |-> "editor", WP_PASSWORD |-> ""]}

NoGbQuery == GbQuery("", "", "", "", "", "", "")
NoGbEnv == [PREVIEW_TOKEN |-> "", WORDPRESS_API_URL |-> "", WP_USERNAME |-> "",
            WP_PASSWORD |-> ""]
NoGbResp == GbError(0, "none", "")

\* no request to get-blog is under way
GbIdle ==
    /\ gbReq = NoGbQuery
    /\ gbEnv = NoGbEnv
    /\ gbPc = "idle"
    /\ gbCalls = <<>>
    /\ gbResults = <<>>
    /\ gbResp = NoGbResp

\* no request to an edge function is under way
EdgeIdle ==
    /\ rw = "none"
    /\ url = Url("", "", "")
    /\ env \in {e \in Envs : e.SITE_URL = ""}
    /\ pc = "idle"
    /\ slug = ""
    /\ post = NoRec
    /\ category = NoCategory
    /\ categories = <<>>
    /\ image = ""
    /\ page = NoPage
    /\ fetches = <<>>
    /\ results = <<>>
    /\ nextCalls = 0
    /\ resp = NoResp
    /\ pass = 1
    /\ firstOut = <<>>

GbInit ==
    /\ gbReq \in GbQueries
    /\ gbEnv \in GbEnvs
    /\ gbPc = "start"
    /\ gbCalls = <<>>
    /\ gbResults = <<>>
    /\ gbResp = NoGbResp

\* fetch(jwtUrl, {method: 'POST', body: {username, password}})
GbJwtCall == [to |-> "jwt", query |-> GbWpUrl(NoGbQuery), bearer |-> ""]

\* fetch(wpUrl, {headers}) with the Authorization header of preview mode
GbWpCall(q, jwtToken) == [to |-> "wp", query |-> GbWpUrl(q), bearer |-> jwtToken]

\* the reply of the token endpoint taken as a token whatever it holds
GbHasTokenUnchecked(jwtToken) == TRUE

\* if (!jwtToken) throw: the token getJWTToken returned is one
GbHasToken(jwtToken) == jwtToken # ""

\* the handler up to its first await
GbStart ==
    /\ gbPc = "start"
    /\ \/ /\ GbUnauthorized(gbReq, gbEnv)
          /\ gbResp' = GbUnauthorizedResponse
          /\ gbPc' = "done"
          /\ UNCHANGED gbCalls
       \/ /\ ~GbUnauthorized(gbReq, gbEnv)
          /\ gbEnv.WORDPRESS_API_URL = ""
          /\ gbResp' = GbThrown
          /\ gbPc' = "done"
          /\ UNCHANGED gbCalls
       \/ /\ ~GbUnauthorized(gbReq, gbEnv)
          /\ gbEnv.WORDPRESS_API_URL # ""
          /\ gbReq.preview = "true"
          /\ GbNoCredentials(gbEnv)
          /\ gbResp' = GbFailed("Failed to authenticate with WordPress")
          /\ gbPc' = "done"
          /\ UNCHANGED gbCalls
       \/ /\ ~GbUnauthorized(gbReq, gbEnv)
          /\ gbEnv.WORDPRESS_API_URL # ""
          /\ gbReq.preview = "true"
          /\ ~GbNoCredentials(gbEnv)
          /\ gbCalls' = Append(gbCalls, GbJwtCall)
          /\ gbPc' = "jwt"
          /\ UNCHANGED gbResp
       \/ /\ ~GbUnauthorized(gbReq, gbEnv)
          /\ gbEnv.WORDPRESS_API_URL # ""
          /\ gbReq.preview # "true"
          /\ gbCalls' = Append(gbCalls, GbWpCall(gbReq, ""))
          /\ gbPc' = "wp"
          /\ UNCHANGED gbResp
    /\ UNCHANGED <<gbReq, gbEnv, gbResults>>
    /\ UNCHANGED <<edgeVars, uiVars>>

\* the token request ends; jwtToken is data.token, or null after a failure
GbJwtDone ==
    /\ gbPc = "jwt"
    /\ \E r \in Failures \cup {"ok"}, token \in {"", "jwt-abc"} :
        LET jwtToken == IF r = "ok" THEN token ELSE ""
        IN  /\ r # "ok" => token = ""
            /\ gbResults' = Append(gbResults, IF r = "ok" /\ token = "" THEN "no-token" ELSE r)
            /\ \/ /\ ~GbHasToken(jwtToken)
                  /\ gbResp' = GbFailed("Failed to authenticate with WordPress")
                  /\ gbPc' = "done"
                  /\ UNCHANGED gbCalls
               \/ /\ GbHasToken(jwtToken)
                  /\ gbCalls' = Append(gbCalls, GbWpCall(gbReq, jwtToken))
                  /\ gbPc' = "wp"
                  /\ UNCHANGED gbResp
    /\ UNCHANGED <<gbReq, gbEnv>>
    /\ UNCHANGED <<edgeVars, uiVars>>

\* the request to WordPress ends
GbWpDone ==
    /\ gbPc = "wp"
    /\ \/ /\ gbResults' = Append(gbResults, "threw")
          /\ gbResp' = GbFailed("fetch failed")
       \/ /\ gbResults' = Append(gbResults, "not-ok")
          /\ gbResp' = GbFailed("WordPress API error: 500")
       \/ /\ gbResults' = Append(gbResults, "bad-json")
          /\ gbResp' = GbFailed("Unexpected token")
       \/ /\ gbResults' = Append(gbResults, "ok")
          /\ gbResp' = GbData(gbCalls[Len(gbCalls)].query)
    /\ gbPc' = "done"
    /\ UNCHANGED <<gbReq, gbEnv, gbCalls>>
    /\ UNCHANGED <<edgeVars, uiVars>>

(***************************************************************************)
(* x-blog-list: the list of posts. The model follows the category and the  *)
(* posts of the component: connectedCallback, the category attribute,      *)
(* loadCategories, loadAllPosts, showMorePosts and render.                 *)
(***************************************************************************)
MaxChanges == 2

\* what getCategories() resolves to
BlCategoryList ==
    <<[id |-> "7", slug |-> "news", count |-> 2],
      [id |-> "9", slug |-> "events", count |-> 0],
      [id |-> "1", slug |-> "uncategorized", count |-> 3]>>

\* what getPosts(100, 0, category) resolves to: the ids of the posts
BlPostsOf(c) ==
    CASE c = "" -> <<1, 2, 3, 4, 5, 6, 7>>
      [] c = "7" -> <<1, 2>>
      [] c = "8" -> <<3>>
      [] OTHER -> <<>>

\* values of the category attribute; "" is no attribute
BlAttrValues == {"", "7", "8"}

\* window.location: /blog, /blog/c/news, /blog/c/events, /blog?category=8
BlLocations ==
    {[slug |-> "", param |-> ""], [slug |-> "news", param |-> ""],
     [slug |-> "events", param |-> ""], [slug |-> "", param |-> "8"]}

BlExcludeSlugs ==
    {"uncategorized", "uncategorised", "non-classe", "sin-categoria", "sem-categoria"}

\* allCategories.filter(cat => !excludeSlugs.includes(cat.slug) && cat.count > 0)
BlFilter(cats) ==
    LET Keep(cat) == cat.slug \notin BlExcludeSlugs /\ cat.count > 0
    IN  SelectSeq(cats, Keep)

\* this.categories.find(cat => cat.slug === this.categorySlug): its index, or 0
BlFind(cats, s) == First({i \in 1..Len(cats) : cats[i].slug = s})

BlView(kind, posts, more) == [kind |-> kind, posts |-> posts, more |-> more]

\* renderLoading()
BlLoader == BlView("loader", <<>>, FALSE)

\* renderError('Failed to load blog posts')
BlErrorAlert == BlView("error", <<>>, FALSE)

\* what render() puts in the shadow root
BlRender(allPosts, isLoading, displayCount) ==
    IF Len(allPosts) = 0
    THEN IF isLoading THEN BlLoader ELSE BlView("empty", <<>>, FALSE)
    ELSE BlView("list",
                SubSeq(allPosts, 1, IF displayCount < Len(allPosts)
                                    THEN displayCount ELSE Len(allPosts)),
                displayCount < Len(allPosts))

\* a call of loadAllPosts is waiting for getPosts
BlPending(loads) == {i \in 1..Len(loads) : loads[i].state = "pending"}

\* loadAllPosts() up to its await: the loader is shown, isLoading is set and
\* getPosts is called with the category of this moment
BlLoadAllPosts(c) ==
    /\ blView' = BlLoader
    /\ blIsLoading' = TRUE
    /\ blLoads' =
           Append([i \in 1..Len(blLoads) |->
                      IF blLoads[i].state = "pending"
                      THEN [blLoads[i] EXCEPT !.overlapped = TRUE] ELSE blLoads[i]],
                  [category |-> c, state |-> "pending",
                   overlapped |-> BlPending(blLoads) # {}])

\* the element is created; an element upgraded in the document is connected
\* when its attributes are reported, one created by the parser is not
BlInit ==
    /\ blPc = "new"
    /\ blIsConnected \in BOOLEAN
    /\ blAttr = ""
    /\ blLocation \in BlLocations
    /\ blCategory = ""
    /\ blCategorySlug = ""
    /\ blCategories = <<>>
    /\ blAllPosts = <<>>
    /\ blIsLoading = FALSE
    /\ blDisplayCount = 6
    /\ blView = BlView("blank", <<>>, FALSE)
    /\ blLoads = <<>>
    /\ blLast = "none"
    /\ blChanges = 0

\* no blog list on the page
BlIdle ==
    /\ blPc = "idle"
    /\ blIsConnected = FALSE
    /\ blAttr = ""
    /\ blLocation = [slug |-> "", param |-> ""]
    /\ blCategory = ""
    /\ blCategorySlug = ""
    /\ blCategories = <<>>
    /\ blAllPosts = <<>>
    /\ blIsLoading = FALSE
    /\ blDisplayCount = 6
    /\ blView = BlView("blank", <<>>, FALSE)
    /\ blLoads = <<>>
    /\ blLast = "none"
    /\ blChanges = 0

\* connectedCallback up to its first await: the category of the location is
\* taken when there is none yet; a slug without id waits for the categories,
\* otherwise the posts are loaded
BlConnectedCallback ==
    /\ blPc = "new"
    /\ blIsConnected' = TRUE
    /\ LET fromPath == blCategory = "" /\ blLocation.slug # ""
           fromParam == blCategory = "" /\ blLocation.slug = "" /\ blLocation.param # ""
           categorySlug == IF fromPath THEN blLocation.slug ELSE blCategorySlug
           c == IF fromParam THEN blLocation.param ELSE blCategory
       IN  /\ blCategorySlug' = categorySlug
           /\ blCategory' = c
           /\ \/ /\ categorySlug # "" /\ c = ""
                 /\ blPc' = "categories"
                 /\ blIsLoading' = TRUE
                 /\ blView' = BlLoader
                 /\ UNCHANGED blLoads
              \/ /\ ~(categorySlug # "" /\ c = "")
                 /\ blPc' = "ready"
                 /\ BlLoadAllPosts(c)
    /\ UNCHANGED <<blAttr, blLocation, blCategories, blAllPosts, blDisplayCount,
                   blLast, blChanges>>
    /\ UNCHANGED <<edgeVars, gbVars, navVars>>

\* connectedCallback after loadCategories: a failure of getCategories is
\* logged; the category with the slug gives its id; the posts are loaded
BlCategoriesLoaded ==
    /\ blPc = "categories"
    /\ \E ok \in BOOLEAN :
          LET cats == IF ok THEN BlFilter(BlCategoryList) ELSE blCategories
              m == BlFind(cats, blCategorySlug)
              c == IF m # 0 THEN cats[m].id ELSE blCategory
          IN  /\ blCategories' = cats
              /\ blCategory' = c
              /\ BlLoadAllPosts(c)
    /\ blPc' = "ready"
    /\ UNCHANGED <<blIsConnected, blAttr, blLocation, blCategorySlug, blAllPosts,
                   blDisplayCount, blLast, blChanges>>
    /\ UNCHANGED <<edgeVars, gbVars, navVars>>

\* attributeChangedCallback('category', oldValue, newValue); before
\* connectedCallback only the attribute of the markup is reported
BlCategoryChanged ==
    /\ blChanges < MaxChanges
    /\ blPc = "new" => blAttr = ""
    /\ \E newValue \in BlAttrValues \ {blAttr} :
          /\ blAttr' = newValue
          /\ \/ /\ blIsConnected /\ (Len(blAllPosts) > 0 \/ blAttr # "")
                /\ blCategory' = newValue
                /\ BlLoadAllPosts(newValue)
             \/ /\ blIsConnected /\ ~(Len(blAllPosts) > 0 \/ blAttr # "")
                /\ blCategory' = newValue
                /\ UNCHANGED <<blView, blIsLoading, blLoads>>
             \/ /\ ~blIsConnected
                /\ UNCHANGED <<blCategory, blView, blIsLoading, blLoads>>
    /\ blChanges' = blChanges + 1
    /\ UNCHANGED <<blPc, blIsConnected, blLocation, blCategorySlug, blCategories,
                   blAllPosts, blDisplayCount, blLast>>
    /\ UNCHANGED <<edgeVars, gbVars, navVars>>

\* loadAllPosts after its await: the posts are stored, or renderError shows
\* the alert; then finally clears isLoading and calls render()
BlLoadSettled ==
    /\ \E i \in BlPending(blLoads) :
          /\ \/ /\ blAllPosts' = BlPostsOf(blLoads[i].category)
                /\ blLast' = "loaded"
                /\ blLoads' = [blLoads EXCEPT ![i].state = "loaded"]
             \/ /\ blAllPosts' = blAllPosts
                /\ blLast' = "failed"
                /\ blLoads' = [blLoads EXCEPT ![i].state = "failed"]
          /\ blIsLoading' = FALSE
          /\ blView' = BlRender(blAllPosts', FALSE, blDisplayCount)
    /\ UNCHANGED <<blPc, blIsConnected, blAttr, blLocation, blCategory, blCategorySlug,
                   blCategories, blDisplayCount, blChanges>>
    /\ UNCHANGED <<edgeVars, gbVars, navVars>>

\* a click on the Load More button while nothing is loading: showMorePosts()
BlShowMorePosts ==
    /\ blView.kind = "list" /\ blView.more
    /\ ~blIsLoading
    /\ blDisplayCount' = blDisplayCount + 6
    /\ blView' = BlRender(blAllPosts, blIsLoading, blDisplayCount + 6)
    /\ UNCHANGED <<blPc, blIsConnected, blAttr, blLocation, blCategory, blCategorySlug,
                   blCategories, blAllPosts, blIsLoading, blLoads, blLast, blChanges>>
    /\ UNCHANGED <<edgeVars, gbVars, navVars>>

(***************************************************************************)
(* x-primary-nav: the primary navigation with its drawer menu.             *)
(***************************************************************************)
MaxParents == 2

\* the menus the page can give the component: the default menu has no item
\* with a sub-menu, the others have some
NavMenus == 0..MaxParents

\* render(): the shadow root is written anew, the menu is closed, and
\* initializeMenu() makes the list inert when the toggle button is visible
NavRender ==
    /\ navRendered' = TRUE
    /\ navOpen' = FALSE
    /\ navExpanded' = FALSE
    /\ navSubOpen' = {}
    /\ navInert' = navToggleVisible

\* closeMenu() of initializeMenu, and the same steps of the document handlers
NavCloseMenu ==
    /\ navOpen' = FALSE
    /\ navExpanded' = FALSE
    /\ navInert' = IF navToggleVisible THEN TRUE ELSE navInert

NavInit ==
    /\ navConnected = FALSE
    /\ navInitialized = FALSE
    /\ navMenu \in NavMenus
    /\ navRendered = FALSE
    /\ navToggleVisible \in BOOLEAN
    /\ navOpen = FALSE
    /\ navExpanded = FALSE
    /\ navInert = FALSE
    /\ navSubOpen = {}
    /\ navFocus = FALSE

\* no navigation on the page
NavIdle ==
    /\ navConnected = FALSE
    /\ navInitialized = FALSE
    /\ navMenu = 0
    /\ navRendered = FALSE
    /\ navToggleVisible = FALSE
    /\ navOpen = FALSE
    /\ navExpanded = FALSE
    /\ navInert = FALSE
    /\ navSubOpen = {}
    /\ navFocus = FALSE

\* connectedCallback: render, and the listeners of document and window
NavConnectedCallback ==
    /\ ~navConnected
    /\ navConnected' = TRUE
    /\ NavRender
    /\ navInitialized' = TRUE
    /\ navFocus' = FALSE
    /\ UNCHANGED <<navMenu, navToggleVisible>>
    /\ UNCHANGED <<edgeVars, gbVars, blVars>>

\* disconnectedCallback: the listeners are taken off
NavDisconnectedCallback ==
    /\ navConnected
    /\ navConnected' = FALSE
    /\ navInitialized' = FALSE
    /\ navFocus' = FALSE
    /\ UNCHANGED <<navMenu, navRendered, navToggleVisible, navOpen, navExpanded,
                   navInert, navSubOpen>>
    /\ UNCHANGED <<edgeVars, gbVars, blVars>>

\* set menuItems(items): renders when the component is connected
NavSetMenuItems ==
    /\ \E items \in NavMenus \ {navMenu} :
          /\ navMenu' = items
          /\ \/ /\ navConnected
                /\ NavRender
                /\ navFocus' = FALSE
             \/ /\ ~navConnected
                /\ UNCHANGED <<navRendered, navOpen, navExpanded, navSubOpen, navInert,
                               navFocus>>
    /\ UNCHANGED <<navConnected, navInitialized, navToggleVisible>>
    /\ UNCHANGED <<edgeVars, gbVars, blVars>>

\* a click on the toggle button
NavToggleClick ==
    /\ navConnected /\ navToggleVisible
    /\ navExpanded' = ~navExpanded
    /\ navOpen' = ~navOpen
    /\ navInert' = ~navOpen'
    /\ UNCHANGED <<navConnected, navInitialized, navMenu, navRendered, navToggleVisible,
                   navSubOpen, navFocus>>
    /\ UNCHANGED <<edgeVars, gbVars, blVars>>

\* a click on the overlay of the open drawer
NavOverlayClick ==
    /\ navConnected /\ navOpen
    /\ NavCloseMenu
    /\ UNCHANGED <<navConnected, navInitialized, navMenu, navRendered, navToggleVisible,
                   navSubOpen, navFocus>>
    /\ UNCHANGED <<edgeVars, gbVars, blVars>>

\* a click on a link of the menu that has no sub-menu
NavLinkClick ==
    /\ navConnected /\ ~navInert
    /\ NavCloseMenu
    /\ UNCHANGED <<navConnected, navInitialized, navMenu, navRendered, navToggleVisible,
                   navSubOpen, navFocus>>
    /\ UNCHANGED <<edgeVars, gbVars, blVars>>

\* a click on a link that owns a sub-menu
NavParentClick ==
    /\ navConnected /\ ~navInert
    /\ \E parentLink \in 1..navMenu :
          navSubOpen' = IF parentLink \in navSubOpen
                        THEN navSubOpen \ {parentLink}
                        ELSE navSubOpen \cup {parentLink}
    /\ UNCHANGED <<navConnected, navInitialized, navMenu, navRendered, navToggleVisible,
                   navOpen, navExpanded, navInert, navFocus>>
    /\ UNCHANGED <<edgeVars, gbVars, blVars>>

\* #handleDocumentClick for a click outside the component: the menu and the
\* sub-menus are closed
NavDocumentClick ==
    /\ navInitialized
    /\ \/ /\ navOpen
          /\ NavCloseMenu
       \/ /\ ~navOpen
          /\ UNCHANGED <<navOpen, navExpanded, navInert>>
    /\ navSubOpen' = {}
    /\ navFocus' = FALSE
    /\ UNCHANGED <<navConnected, navInitialized, navMenu, navRendered, navToggleVisible>>
    /\ UNCHANGED <<edgeVars, gbVars, blVars>>

\* #handleDocumentKeydown for the Escape key
NavEscape ==
    /\ navInitialized
    /\ \/ /\ navOpen
          /\ NavCloseMenu
          /\ navFocus' = TRUE
       \/ /\ ~navOpen
          /\ UNCHANGED <<navOpen, navExpanded, navInert, navFocus>>
    /\ UNCHANGED <<navConnected, navInitialized, navMenu, navRendered, navToggleVisible,
                   navSubOpen>>
    /\ UNCHANGED <<edgeVars, gbVars, blVars>>

\* the window is resized and the style sheet shows or hides the toggle
\* button; #handleResize runs when its listener is on
NavResize ==
    /\ navToggleVisible' = ~navToggleVisible
    /\ navInert' = IF navInitialized /\ navRendered /\ ~navToggleVisible'
                   THEN FALSE ELSE navInert
    /\ UNCHANGED <<navConnected, navInitialized, navMenu, navRendered, navOpen,
                   navExpanded, navSubOpen, navFocus>>
    /\ UNCHANGED <<edgeVars, gbVars, blVars>>

(***************************************************************************)
(* Specifications                                                          *)
(***************************************************************************)
UiIdle == BlIdle /\ NavIdle

Init == EdgeInit /\ GbIdle /\ UiIdle

Next ==
    \/ PostStart \/ PostFetchDone \/ PostRewrite
    \/ CategoryStart \/ CategoryFetchDone \/ CategoryOrigin \/ CategoryFetch2Done
    \/ SocialStart \/ SocialFetch2Done
    \/ Resubmit

\* the edge functions
Spec == Init /\ [][Next]_vars

GbSpecInit == EdgeIdle /\ GbInit /\ UiIdle

GbNext == GbStart \/ GbJwtDone \/ GbWpDone

\* get-blog
GbSpec == GbSpecInit /\ [][GbNext]_vars

BlSpecInit == EdgeIdle /\ GbIdle /\ BlInit /\ NavIdle

BlNext ==
    \/ BlConnectedCallback \/ BlCategoriesLoaded \/ BlCategoryChanged
    \/ BlLoadSettled \/ BlShowMorePosts

\* the blog list
BlSpec == BlSpecInit /\ [][BlNext]_vars

NavSpecInit == EdgeIdle /\ GbIdle /\ BlIdle /\ NavInit

NavNext ==
    \/ NavConnectedCallback \/ NavDisconnectedCallback \/ NavSetMenuItems
    \/ NavToggleClick \/ NavOverlayClick \/ NavLinkClick \/ NavParentClick
    \/ NavDocumentClick \/ NavEscape \/ NavResize

\* the primary navigation
NavSpec == NavSpecInit /\ [][NavNext]_vars

(***************************************************************************)
(* Properties of the edge functions                                        *)
(***************************************************************************)
Done == pc = "done"

\* the response has the body and the status of the origin's response
Unmodified ==
    /\ page # NoPage
    /\ resp.status = page.status
    /\ resp.body = page.html

\* a call to the content API failed during this request
SomeFetchFailed == \E i \in 1..Len(results) : results[i] \in Failures

\* the resource lookup (the post, the categories list) failed
LookupFailed ==
    /\ Len(results) >= 1 /\ results[1] \in Failures
    /\ fetches[1].fn \in {"slug", "categories"}

\* the lookup of the latest post's image failed
ImageFetchFailed ==
    \E i \in 1..Len(results) : results[i] \in Failures /\ fetches[i].fn = "posts"

\* SITE_URL, or the origin of the request when it is not configured
SiteUrl == Or(env.SITE_URL, url.origin)

C2_StatusIsUpstreamStatus ==
    Done =>
        IF resp.via = "not-found"
        THEN /\ rw = "category" /\ resp.status = 404
             /\ results = <<"ok">> /\ CategoryMatches(categories, slug) = {}
        ELSE page # NoPage /\ resp.status = page.status

\* an error page of the origin was rewritten
C2_Witness == Done /\ IsRewrite(resp) /\ page.status = 500

\* C3: in category-meta, when the categories list was fetched and none of
\* its categories has the requested slug, the response is a 404 with
\* Location /404 and the origin was not asked for the page.
C3_UnknownCategoryIs404 ==
    (/\ Done /\ rw = "category"
     /\ Len(results) >= 1 /\ results[1] = "ok" /\ fetches[1].fn = "categories"
     /\ \A i \in 1..Len(categories) : categories[i].slug # slug)
    => /\ resp.status = 404
       /\ resp.headers.location = "/404"
       /\ resp.body = <<>>
       /\ nextCalls = 0 /\ page = NoPage

\* the slug events is looked up in a list of other categories
C3_Witness ==
    /\ Done /\ rw = "category" /\ slug = "events"
    /\ results = <<"ok">> /\ Len(categories) = 2

\* the slug blog-meta resolves: the slug parameter, else the last path part
ResolvedSlug == PostSlug(url)

\* the slug is the name of the bare template, taken from the path
PathNamesTemplateFile == url.slug = "" /\ ResolvedSlug = "post.html"

\* C4 as claimed: blog-meta answers every request whose resolved slug fails
\* the slug pattern without a lookup and with the origin's page untouched.
C4_InvalidSlugUnmodified ==
    (Done /\ rw = "post" /\ ~ValidSlug(ResolvedSlug))
    => fetches = <<>> /\ Unmodified

\* C4, amended: for a resolved slug that fails the pattern no lookup is made
\* and the origin's status is kept; the origin's page is untouched unless the
\* slug is post.html taken from the path, which is the bare template and gets
\* the noindex treatment.
C4_InvalidSlugNoLookup ==
    (Done /\ rw = "post" /\ ~ValidSlug(ResolvedSlug))
    => /\ fetches = <<>>
       /\ resp.status = page.status
       /\ ~PathNamesTemplateFile => Unmodified

\* my-post! was refused
C4_Witness ==
    Done /\ rw = "post" /\ ResolvedSlug = "my-post!" /\ resp.via = "invalid"

(***************************************************************************)
(* Properties of get-blog                                                  *)
(***************************************************************************)
GbDone == gbPc = "done"

\* the request asks for preview and its token is missing, is not
\* PREVIEW_TOKEN, or there is no PREVIEW_TOKEN
BadPreviewToken ==
    /\ gbReq.preview = "true"
    /\ \/ gbReq.token = ""
       \/ gbReq.token # gbEnv.PREVIEW_TOKEN
       \/ gbEnv.PREVIEW_TOKEN = ""

\* C5: a preview request with a missing or wrong token, or with no
\* PREVIEW_TOKEN configured, is answered 401 Unauthorized / Invalid preview
\* token, and neither the token endpoint nor WordPress is called.
C5_BadPreviewTokenIs401 ==
    (GbDone /\ BadPreviewToken)
    => /\ gbResp.status = 401
       /\ gbResp.error = "Unauthorized"
       /\ gbResp.message = "Invalid preview token"
       /\ gbCalls = <<>>

\* a preview request with the wrong token was answered
C5_Witness ==
    /\ GbDone /\ gbReq.preview = "true" /\ gbReq.token = "wrong"
    /\ gbEnv.PREVIEW_TOKEN = "secret"

\* the token request was made and gave no token
TokenIssuanceFailed ==
    \E i \in 1..Len(gbResults) :
        gbCalls[i].to = "jwt" /\ gbResults[i] \in Failures \cup {"no-token"}

\* C6: WordPress is asked for drafts only with a bearer token, obtained by a
\* token request that succeeded just before, and only for a request whose
\* token is PREVIEW_TOKEN; a preview request for which the credentials are
\* missing or the token request failed never reaches WordPress and is not
\* answered with content.
C6_PreviewFailsClosed ==
    /\ \A i \in 1..Len(gbCalls) :
          (gbCalls[i].to = "wp" /\ gbCalls[i].query.drafts)
          => /\ gbEnv.PREVIEW_TOKEN # "" /\ gbReq.token = gbEnv.PREVIEW_TOKEN
             /\ gbCalls[i].bearer # ""
             /\ i > 1 /\ gbCalls[i - 1].to = "jwt"
             /\ Len(gbResults) >= i - 1 /\ gbResults[i - 1] = "ok"
    /\ (/\ GbDone /\ gbReq.preview = "true"
        /\ (gbEnv.WP_USERNAME = "" \/ gbEnv.WP_PASSWORD = "" \/ TokenIssuanceFailed))
       => /\ \A i \in 1..Len(gbCalls) : gbCalls[i].to # "wp"
          /\ gbResp.status # 200
          /\ ~gbResp.drafts

\* the token endpoint answered without a token and the request failed
C6_Witness ==
    /\ GbDone /\ gbReq.preview = "true" /\ gbReq.slug # ""
    /\ gbResults = <<"no-token">> /\ gbResp.status = 500

(***************************************************************************)
(* Properties of the rewritten head                                        *)
(***************************************************************************)
\* the document has one description tag, and it has content
OneDescription(html) ==
    /\ Cardinality(TagsOf(html, "description")) = 1
    /\ Trim(ContentsOf(html, "description")[1]) # ""

\* the description computed for this request from the fetched record
DesiredDescription ==
    IF rw = "post" THEN escapeHtmlAttr(Or(PostExcerpt(post), DefaultExcerpt))
    ELSE escapeHtmlAttr(Or(category.description,
                           "Browse " \o category.name \o " posts on our blog."))

\* C7: when the page has one description tag with content, the page that
\* blog-meta or category-meta returns has one description tag, and its
\* content is the description computed from the fetched record.
C7_SingleFreshDescription ==
    (/\ Done /\ IsRewrite(resp) /\ rw \in {"post", "category"}
     /\ OneDescription(page.html))
    => ContentsOf(resp.body, "description") = <<DesiredDescription>>

Normalized == {"title", "canonical", "og:url", "twitter:url"}

\* the contents a document has for a kind of tag
ContentSet(html, kind) ==
    {ContentsOf(html, kind)[i] : i \in 1..Len(ContentsOf(html, kind))}

\* C8: the rewrite applied to its own output gives the same title,
\* canonical, og:url and twitter:url contents as the first rewrite gave.
C8_RewriteIdempotent ==
    (Done /\ IsRewrite(resp) /\ pass = 2)
    => \A k \in Normalized : ContentSet(resp.body, k) = ContentSet(firstOut, k)

\* the fetched resource has no featured image
NoFeaturedImage ==
    /\ rw = "post" => post.featured = ""
    /\ rw = "category" => image = ""

\* C9: a rewritten page that is not the listing, had no og:image tag and
\* whose resource has no featured image has an og:image tag with
\* <site>/social.jpg.
C9_DefaultImageInserted ==
    (/\ Done /\ IsRewrite(resp)
     /\ ~(rw = "social" /\ IsBlogListing(url))
     /\ HasTag(page.html, "/head") /\ ~HasTag(page.html, "og:image")
     /\ NoFeaturedImage)
    => \E i \in TagsOf(resp.body, "og:image") :
           resp.body[i].v = SiteUrl \o "/social.jpg"

Entities == {"&amp;", "&lt;", "&gt;", "&quot;", "&#39;"}

\* the text is what escapeHtmlAttr leaves: no < > " ' and & only at the
\* start of one of its entities
EscapedText(v) ==
    \A i \in 1..Len(v) :
        /\ Char(v, i) \notin {"<", ">", "\"", "'"}
        /\ Char(v, i) = "&" =>
              \E e \in Entities :
                  i + Len(e) - 1 <= Len(v) /\ SubSeq(v, i, i + Len(e) - 1) = e

\* C10: every value in a rewritten document is escaped for an HTML
\* attribute.
C10_AllValuesEscaped ==
    (Done /\ IsRewrite(resp))
    => \A i \in 1..Len(resp.body) : EscapedText(resp.body[i].v)

(***************************************************************************)
(* Properties of the in-place replacements and of the routing              *)
(***************************************************************************)
\* the page of the origin has no </head>
NoHeadClose == \A i \in 1..Len(page.html) : page.html[i] # HEADCLOSE

\* C11: when </head> does not occur in the page, the page a rewriter
\* returns is the page of the origin: no title, canonical or description is
\* replaced either.
C11_NoHeadUnchanged ==
    (Done /\ IsRewrite(resp) /\ NoHeadClose) => resp.body = page.html

(***************************************************************************)
(* Progress.  A handler runs as soon as it is called and goes on as soon   *)
(* as the promise it awaits settles.  A fetch is issued without signal or  *)
(* timer (fetch(url), fetch(wpUrl, {headers}), fetch(jwtUrl, {method,      *)
(* headers, body})), so nothing in the code settles it when the network    *)
(* does not: the steps that follow a fetch have no fairness.               *)
(***************************************************************************)
GbLiveSpec == GbSpecInit /\ [][GbNext]_vars /\ WF_vars(GbStart)

\* a fetch of get-blog is pending
GbFetchPending == gbPc \in {"jwt", "wp"}

\* C12: every request whose handler issued a fetch is answered in the end,
\* whether or not the network ever completes the fetch.
C12_FetchEndsInResponse == GbFetchPending ~> GbDone

(***************************************************************************)
(* Properties of the queries and responses of get-blog                     *)
(***************************************************************************)
\* the queries with per_page that get-blog has sent to WordPress
GbPaginated ==
    {i \in 1..Len(gbCalls) :
        gbCalls[i].to = "wp" /\ gbCalls[i].query.kind \in {"list", "default"}}

\* C14: whatever posts and offset are, a query with per_page that get-blog
\* sends has a page size in 1..100 and an offset that is an integer >= 0.
C14_PaginationInRange ==
    \A i \in GbPaginated :
        /\ ~gbCalls[i].query.perPage.nan
        /\ gbCalls[i].query.perPage.n \in 1..100
        /\ ~gbCalls[i].query.offset.nan
        /\ gbCalls[i].query.offset.n >= 0

\* C15: every request to get-blog ends in a response with status 200, 401 or
\* 500, the last two with an {error, message} body; the handler never ends
\* by throwing.
C15_AlwaysResponds ==
    GbDone =>
        /\ gbResp.status \in {200, 401, 500}
        /\ gbResp.status \in {401, 500} => gbResp.error # "" /\ gbResp.message # ""

(***************************************************************************)
(* Properties of the responses of the edge functions                       *)
(***************************************************************************)
\* the response is the response of the origin: status, headers and body
UntouchedUpstream ==
    /\ page # NoPage
    /\ resp.status = page.status
    /\ resp.headers = page.headers
    /\ resp.body = page.html

\* C16: a response of an edge function is the untouched response of the
\* origin, or it carries Content-Type: text/html; charset=utf-8 and
\* Cache-Control: public, max-age=3600.
C16_RewrittenHeadersOrUntouched ==
    Done =>
        \/ UntouchedUpstream
        \/ /\ resp.headers.ctype = "text/html; charset=utf-8"
           /\ resp.headers.cache = "public, max-age=3600"

(***************************************************************************)
(* Properties of the tags of the rewritten document                        *)
(***************************************************************************)
Advisory == {"description", "author", "publisher"}

\* C17: a rewrite of a page with a tag of an advisory kind (description,
\* author, publisher), empty or not, adds no tag of that kind, so a page with
\* at most one such tag is rewritten into a page with at most one.
C17_AdvisoryNotDuplicated ==
    (Done /\ IsRewrite(resp)) =>
        \A kind \in Advisory :
            /\ TagsOf(page.html, kind) # {} =>
                   Cardinality(TagsOf(resp.body, kind))
                       = Cardinality(TagsOf(page.html, kind))
            /\ Cardinality(TagsOf(page.html, kind)) <= 1 =>
                   Cardinality(TagsOf(resp.body, kind)) <= 1

\* the URL the rewriter computes for the canonical, og:url and twitter:url
FreshUrl ==
    CASE rw = "post" -> SiteUrl \o "/blog/" \o slug
      [] rw = "category" -> SiteUrl \o "/blog/c/" \o slug
      [] OTHER -> CanonicalUrl(page.html, env, url)

\* the text the rewriter computes for the title
FreshTitle ==
    CASE rw = "post" -> escapeHtmlAttr(post.title) \o " | " \o env.SITE_TITLE
      [] rw = "category" ->
             "Blog: " \o escapeHtmlAttr(category.name) \o " | " \o env.SITE_TITLE
      [] OTHER -> FullTitle(PageTitle(page.html, env), env.SITE_TITLE)

\* the value the rewriter computes for a tag of an always-normalized kind
Fresh(kind) == IF kind = "title" THEN FreshTitle ELSE FreshUrl

\* C18: a rewrite of a page with one tag of an always-normalized kind (title,
\* canonical, og:url, twitter:url) gives a page where every tag of that kind
\* holds the value the rewriter computed: the tag is replaced and no stale
\* copy of it stays beside an inserted one.
C18_NormalizedReplacedInPlace ==
    (Done /\ IsRewrite(resp)) =>
        \A kind \in Normalized :
            Cardinality(TagsOf(page.html, kind)) = 1 =>
                ContentSet(resp.body, kind) = {Fresh(kind)}

(***************************************************************************)
(* Properties of the resolution of the slug                                *)
(***************************************************************************)
\* the category slug as the request gives it: the cat parameter, or else
\* the segment after /blog/c/
SuppliedCategorySlug ==
    IF url.cat # "" THEN url.cat
    ELSE IF StartsWith(url.pathname, "/blog/c/") /\ Len(PathParts(url.pathname)) >= 3
    THEN PathParts(url.pathname)[3]
    ELSE ""

\* C19: category-meta makes no call to the content API for a request whose
\* category slug, given by the cat parameter or by the path, fails the slug
\* pattern, and answers it with the origin's page, untouched or with the
\* noindex rule applied.
C19_InvalidCategorySlugNoLookup ==
    (/\ rw = "category"
     /\ SuppliedCategorySlug # "" /\ ~ValidSlug(SuppliedCategorySlug))
    => /\ fetches = <<>>
       /\ Done => resp.via \in {"invalid", "noindex"}

\* C13: at most one of blog-meta, category-meta and social-meta is configured
\* to run on the path of a request.
C13_OneRewriterPerPath == Cardinality(Configured(url.pathname)) <= 1

BareTemplateNames == {"post", "post.html"}

\* the page with its first <meta name="robots" content="index, follow" />
\* and its first such googlebot tag turned to noindex, follow
IndexFlipped(html) ==
    LET at == {First({i \in 1..Len(html) : IndexMatch(html[i], kind)}) :
                  kind \in {"robots", "googlebot"}}
    IN  [i \in 1..Len(html) |->
            IF i \in at THEN [html[i] EXCEPT !.v = "noindex, follow"] ELSE html[i]]

\* the bare-template answer: no lookup, the status of the origin, the page
\* with robots and googlebot flipped
BareTemplateAnswer ==
    /\ fetches = <<>>
    /\ resp.status = page.status
    /\ resp.body = IndexFlipped(page.html)

\* C20 as claimed: whenever the resolved slug of blog-meta, from the slug
\* parameter or else from the path, is post or post.html, no lookup is made
\* and the answer is the origin's page with robots and googlebot flipped to
\* noindex, under the origin's status.
C20_ResolvedTemplateSlugNoindex ==
    (Done /\ rw = "post" /\ ResolvedSlug \in BareTemplateNames)
    => BareTemplateAnswer

\* C20, amended: the bare-template answer is given when the request has no
\* slug parameter and the last segment of its path is post or post.html.
C20_PathTemplateSlugNoindex ==
    (Done /\ rw = "post" /\ url.slug = "" /\ ResolvedSlug \in BareTemplateNames)
    => BareTemplateAnswer

\* /blog/post.html was answered with a page whose robots tag says noindex
C20_Witness ==
    /\ Done /\ rw = "post" /\ url.slug = "" /\ url.pathname = "/blog/post.html"
    /\ \E i \in TagsOf(resp.body, "robots") : resp.body[i].v = "noindex, follow"

(***************************************************************************)
(* Properties of the listing page and of the fallback image                *)
(***************************************************************************)
\* the request is for the bare listing page, with or without the last slash
BareListing == url.pathname \in {"/blog", "/blog/"} /\ url.slug = ""

\* C21: social-meta answers a request for /blog or for /blog/ whose origin
\* page is HTML with the page enriched as a listing: the structured data
\* says CollectionPage, and the latest post was asked for when the page had
\* no og:image tag. Neither form is passed through.
C21_ListingEnriched ==
    (Done /\ rw = "social" /\ BareListing /\ page.headers.ctype = "text/html")
    => /\ IsRewrite(resp)
       /\ HasTag(page.html, "/head") =>
              \E i \in TagsOf(resp.body, "ld:type") : resp.body[i].v = "CollectionPage"
       /\ ~HasTag(page.html, "og:image") => fetches = <<[fn |-> "posts", arg |-> "1"]>>

\* the latest post was asked for
AskedLatestPost == \E i \in 1..Len(fetches) : fetches[i].fn = "posts"

\* C22: category-meta does not ask for the latest post, and inserts no image
\* of it, when the page of the origin already has an og:image tag.
C22_FallbackOnlyWithoutImageTag ==
    (rw = "category" /\ page # NoPage /\ HasTag(page.html, "og:image"))
    => /\ ~AskedLatestPost
       /\ (Done /\ IsRewrite(resp)) =>
              ContentSet(resp.body, "og:image") = ContentSet(page.html, "og:image")

(***************************************************************************)
(* Properties of the calls an edge function makes                          *)
(***************************************************************************)
\* C23: during one request an edge function makes at most two calls to the
\* content API, a call starts only when the one before it has ended, and no
\* call is made twice, so a failed call is not tried again.
C23_TwoCallsInSequenceNoRetry ==
    /\ Len(fetches) <= 2
    /\ Len(results) <= Len(fetches) /\ Len(fetches) <= Len(results) + 1
    /\ \A i, j \in 1..Len(fetches) : fetches[i] = fetches[j] => i = j

\* a request with two calls made, the second of which failed
C23_Witness ==
    Done /\ Len(fetches) = 2 /\ Len(results) = 2 /\ results[2] \in Failures

(***************************************************************************)
(* Properties of the place of the inserted block                           *)
(***************************************************************************)
\* the places of </head> in a document
HeadCloses(html) == {i \in 1..Len(html) : html[i] = HEADCLOSE}

\* the last place of </head> in a document that has one
LastHeadClose(html) ==
    CHOOSE i \in HeadCloses(html) : \A j \in HeadCloses(html) : j <= i

\* C24: a rewrite puts its block in front of the </head> closest to the end
\* of the page and nowhere else: the tags in front of that </head> keep their
\* places and kinds, and the page gains no </head>.
C24_BlockAtLastHeadClose ==
    (Done /\ IsRewrite(resp) /\ HeadCloses(page.html) # {})
    => /\ Cardinality(HeadCloses(resp.body)) = Cardinality(HeadCloses(page.html))
       /\ Len(resp.body) >= Len(page.html)
       /\ \A i \in 1..(LastHeadClose(page.html) - 1) : resp.body[i].k = page.html[i].k

(***************************************************************************)
(* Properties of the author of a post page                                 *)
(***************************************************************************)
\* the page has no author tag with text
NoAuthorText ==
    ~HasTag(page.html, "author") \/ Trim(Captured(page.html, "author")) = ""

\* C25: blog-meta writes an author tag with the name of the post's author
\* into a page that has no author tag with text, when the post has an
\* author name.
C25_AuthorTagNamesPostAuthor ==
    (/\ Done /\ rw = "post" /\ IsRewrite(resp)
     /\ HasTag(page.html, "/head") /\ NoAuthorText /\ post.author # "")
    => \E i \in TagsOf(resp.body, "author") :
           resp.body[i].v = escapeHtmlAttr(post.author)

\* C26: an edge function asks the origin for the page, with context.next(),
\* at most once for a request.
C26_OriginAskedOnce == nextCalls <= 1

(***************************************************************************)
(* Properties of the blog list                                             *)
(***************************************************************************)
\* every call of loadAllPosts has ended
BlAllSettled == BlPending(blLoads) = {}

\* two calls of loadAllPosts were under way at the same time, and every call
\* got its posts
BlOverlappedAndLoaded ==
    /\ \E i \in 1..Len(blLoads) : blLoads[i].overlapped
    /\ \A i \in 1..Len(blLoads) : blLoads[i].state = "loaded"

\* C27: when calls of loadAllPosts that overlapped have all ended, allPosts
\* holds the posts of the category the component has now, in whatever order
\* the calls of getPosts resolved.
C27_PostsOfCurrentCategory ==
    (BlAllSettled /\ BlOverlappedAndLoaded) => blAllPosts = BlPostsOf(blCategory)

\* C28: when the call of loadAllPosts that ended last failed in getPosts and
\* no call is under way, the component shows the error alert and isLoading
\* is false.
C28_FailureShowsError ==
    (blLast = "failed" /\ BlAllSettled) => (blView = BlErrorAlert /\ ~blIsLoading)

(***************************************************************************)
(* Properties of the primary navigation                                    *)
(***************************************************************************)
\* C29: while the component is on the page with its toggle button visible
\* and its menu closed, the list of the menu is inert.
C29_ClosedMenuInert ==
    (navConnected /\ navToggleVisible /\ ~navOpen) => navInert

(***************************************************************************)
(* Properties of the query get-blog selects                                *)
(***************************************************************************)
\* the calls get-blog has made to WordPress for content
GbContentCalls == {i \in 1..Len(gbCalls) : gbCalls[i].to = "wp"}

\* the posts parameter is there and parseInt reads a number from it
GbPostsIsNumber == gbReq.posts # "" /\ ~ParseInt(gbReq.posts).nan

\* the kind of query the precedence categories, slug, posts, default gives
GbExpectedKind ==
    IF gbReq.categories # "" THEN "categories"
    ELSE IF gbReq.slug # "" THEN "slug"
    ELSE IF GbPostsIsNumber THEN "list"
    ELSE "default"

\* C30: get-blog asks WordPress for content at most once for a request, and
\* the query is chosen by the precedence categories, slug, posts, default:
\* the list of categories, else the post of the slug, else the page of
\* posts (the only query with the category filter), else the latest 10 posts.
C30_QueryPrecedence ==
    /\ Cardinality(GbContentCalls) <= 1
    /\ \A i \in GbContentCalls :
          /\ gbCalls[i].query.kind = GbExpectedKind
          /\ gbCalls[i].query.kind = "slug" => gbCalls[i].query.slug = gbReq.slug
          /\ gbCalls[i].query.categories =
                 (IF GbExpectedKind = "list" THEN gbReq.category ELSE "")
          /\ gbCalls[i].query.kind = "default" => gbCalls[i].query.perPage = Num(10)

\* a request with categories, slug and posts got the list of categories
C30_Witness ==
    /\ GbDone /\ gbReq.categories # "" /\ gbReq.slug # "" /\ gbReq.posts = "5"
    /\ \E i \in GbContentCalls : gbCalls[i].query.kind = "categories"

====
